---- MODULE Spec2Model ----
(***************************************************************************)
(* Verification model of the sbcstuff utility scripts.                     *)
(*                                                                         *)
(*   Spec           one run of scripts/rock5b/rock5b-npu-test.py: main,    *)
(*                  run_system_checks, the early-exit modes,               *)
(*                  run_inference_test and the NPU benchmark in an         *)
(*                  isolated child process                                 *)
(*   SpecPartition  the backward-tracing loop of                           *)
(*                  _analyze_delegate_partitions over bounded op graphs    *)
(*   SpecBadge      repeated runs of repo_scripts/update_badge.py against  *)
(*                  one remote gist                                        *)
(*   SpecFunctions  num_runs_for_model, check_kernel and the speedup       *)
(*                  verdict, applied to bounded inputs                     *)
(***************************************************************************)
EXTENDS FiniteSets, Integers, Sequences, TLC

VARIABLES
    \* ---- rock5b-npu-test.py: main / run_system_checks / run_inference_test
    args,            \* parsed command line
    diag,            \* what the probes of run_system_checks find on this host
    env,             \* host conditions the later steps meet (files, model)
    pc,              \* position of the parent process
    sys_info,        \* SystemInfo returned by run_system_checks
    console,         \* lines printed so far (tags, in order)
    procExit,        \* "running", "0", "1" or "traceback"
    did,             \* work started so far
    cpu_result,      \* TRUE once benchmark_inference returned for the CPU
    npu_result,      \* "none" or "result"
    partition_info,  \* "none" or "info"
    \* ---- _run_npu_benchmark_isolated / _npu_worker
    result_file,     \* "nofile", "empty", "partial", "valid", "invalid", "missing"
    child,           \* "unstarted", "running", "writing", "exited"
    exitcode,        \* exit code of the child once child = "exited"
    waited,          \* seconds the parent has blocked in proc.join(timeout=300)
    fileRead,        \* "unread", or the content the parent found in the file
    npu_raw,         \* "pending", "None", "result"
    isoPath,         \* branch _run_npu_benchmark_isolated returned through
    \* ---- _analyze_delegate_partitions
    npu_ops,         \* the op list of the delegate-bound interpreter
    ppc,             \* position inside _analyze_delegate_partitions
    teflon_delegates,\* hardware delegate nodes, sorted once the trace starts
    td,              \* position of the for-loop in teflon_delegates
    absorbed,        \* op indexes claimed by the current partition
    visited,         \* tensors already popped for the current partition
    queue,           \* work list of tensors
    all_absorbed,    \* op indexes claimed by the finished partitions
    absorbed_per_partition, \* per finished partition: its op indexes, ascending
    part_result,     \* the PartitionInfo returned
    trace_lines,     \* what _print_partition_trace printed, in order
    \* ---- repo_scripts/update_badge.py
    gist_files,      \* the remote gist: file name -> content
    bpc,             \* position of the current run of main()
    clones_data,     \* result of repo.get_clones_traffic()
    history,         \* the dict "history" of the run, in insertion order
    total_clones,    \* sum computed by the run
    boutcome,        \* how the last finished run ended
    net_calls,       \* network calls made by the current run, in order
    gist,            \* the files of the gist object as get_gist returned them
    environ,         \* os.environ as main() looks it up: the token names set
    load_log,        \* what the history load of the run printed
    \* ---- rock5b-npu-test.py: functions applied on their own
    call,            \* the last call: function, argument, returned value
    \* ---- rock5b-npu-test.py: the two benchmark_inference runs
    kpc,             \* "init", "cpu", "spawn", "npu", "done", "skipped", "crashed"
    phase,           \* position inside benchmark_inference
    loop_i,          \* iterations of the current for loop done so far
    num_runs,        \* num_runs of run_inference_test
    input_data,      \* the array create_test_input returned
    teflon_path,     \* TRUE when sys_info has a delegate path
    worker_args,     \* the arguments handed to _npu_worker
    interp,          \* per interpreter: tensor set, calls made, times recorded
    bench_result     \* per interpreter: the BenchmarkResult returned

toolVars == <<args, diag, env, pc, sys_info, console, procExit, did, cpu_result,
              npu_result, partition_info, result_file, child, exitcode, waited,
              fileRead, npu_raw, isoPath>>

partVars == <<npu_ops, ppc, teflon_delegates, td, absorbed, visited, queue,
              all_absorbed, absorbed_per_partition, part_result, trace_lines>>

badgeVars == <<gist_files, bpc, clones_data, history, total_clones, boutcome,
               net_calls, gist, environ, load_log>>

funVars == <<call>>

runVars == <<kpc, phase, loop_i, num_runs, input_data, teflon_path, worker_args,
             interp, bench_result>>

vars == <<toolVars, partVars, badgeVars, funVars, runVars>>

----------------------------------------------------------------------------
(* Bounds and program constants                                            *)

JoinTimeout == 300
TickSeconds == 100

Min(a, b) == IF a < b THEN a ELSE b

Has(seq, x) == \E i \in 1..Len(seq) : seq[i] = x

----------------------------------------------------------------------------
(* rock5b-npu-test.py: command line and host conditions                    *)

\* argparse namespace of main(): the three early-exit switches, --model, --trace
ArgSets ==
    [check_only : BOOLEAN, convert_int8 : BOOLEAN, check_int8 : BOOLEAN,
     model : BOOLEAN, trace : BOOLEAN]

\* Outcomes of the probes called by run_system_checks
DiagOutcomes ==
    [kernel  : {"ok", "old", "unparsable"},
     arch    : {"aarch64", "other"},
     rocket  : {"loaded", "missing"},
     accel   : {"rw", "noaccess", "missing"},
     devfreq : {"numeric", "nonnumeric", "absent"},
     dmesg   : {"hits", "none"},
     teflon  : {"found", "missing"}]

DiagUnprobed ==
    [kernel |-> "unprobed", arch |-> "unprobed", rocket |-> "unprobed",
     accel |-> "unprobed", devfreq |-> "unprobed", dmesg |-> "unprobed",
     teflon |-> "unprobed"]

SysInfoUnset ==
    [kernel_ok |-> FALSE, rocket_loaded |-> FALSE, accel_dev |-> FALSE,
     devfreq |-> FALSE, teflon_path |-> FALSE]

EnvUnset == [model |-> "unset", source |-> "unset", is_int8 |-> "unknown"]

\* The lines run_system_checks prints for the probes before the delegate search
SystemCheckReport(d) ==
    << IF d.kernel = "ok" THEN "ok:kernel" ELSE "warn:kernel",
       IF d.arch = "aarch64" THEN "ok:arch" ELSE "fail:arch",
       IF d.rocket = "loaded" THEN "ok:rocket_module" ELSE "fail:rocket_module" >>
    \o (IF d.accel = "missing" THEN << "fail:accel_dev" >>
        ELSE << "ok:accel_dev",
                IF d.accel = "rw" THEN "ok:accel_access" ELSE "warn:accel_access" >>)
    \o << IF d.devfreq = "absent" THEN "warn:devfreq"
          ELSE IF d.devfreq = "numeric" THEN "ok:devfreq_mhz" ELSE "ok:devfreq_raw",
          IF d.dmesg = "hits" THEN "ok:dmesg" ELSE "warn:dmesg" >>

\* The SystemInfo record run_system_checks returns
SystemInfoOf(d) ==
    [kernel_ok     |-> d.kernel = "ok",
     rocket_loaded |-> d.rocket = "loaded",
     accel_dev     |-> d.accel # "missing",
     devfreq       |-> d.devfreq # "absent",
     teflon_path   |-> d.teflon = "found"]

\* mutant: the missing delegate is only reported
DelegateMissingIsFatal_never(d) == FALSE

\* mutant: a missing device node is treated as fatal as well
DelegateMissingIsFatal_strict(d) == d.teflon # "found" \/ d.accel = "missing"

\* TRUE when the delegate search of run_system_checks ends in sys.exit(1)
DelegateMissingIsFatal(d) == d.teflon # "found"

isoVars == <<result_file, child, exitcode, waited, fileRead, npu_raw, isoPath>>
benchVars == <<cpu_result, npu_result, partition_info>>

\* the state before main() has done anything
ToolFresh ==
    /\ diag = DiagUnprobed
    /\ env = EnvUnset
    /\ sys_info = SysInfoUnset
    /\ console = << >>
    /\ procExit = "running"
    /\ did = {}
    /\ cpu_result = FALSE
    /\ npu_result = "none"
    /\ partition_info = "none"
    /\ result_file = "nofile"
    /\ child = "unstarted"
    /\ exitcode = 0
    /\ waited = 0
    /\ fileRead = "unread"
    /\ npu_raw = "pending"
    /\ isoPath = "none"

ToolInit ==
    /\ args \in ArgSets
    /\ pc = "main_start"
    /\ ToolFresh

\* the tool is not run
ToolIdle ==
    /\ args = [check_only |-> FALSE, convert_int8 |-> FALSE, check_int8 |-> FALSE,
               model |-> FALSE, trace |-> FALSE]
    /\ pc = "idle"
    /\ ToolFresh

\* run_system_checks(): every probe is reported; only a missing delegate exits
run_system_checks ==
    /\ pc = "main_start"
    /\ \E d \in DiagOutcomes :
        /\ diag' = d
        /\ IF DelegateMissingIsFatal(d)
           THEN /\ console' = console \o SystemCheckReport(d) \o << "fail:teflon_not_found" >>
                /\ procExit' = "1"
                /\ pc' = "exited"
                /\ UNCHANGED sys_info
           ELSE /\ console' = console \o SystemCheckReport(d) \o << "ok:teflon" >>
                /\ sys_info' = SystemInfoOf(d)
                /\ pc' = "main_modes"
                /\ UNCHANGED procExit
    /\ UNCHANGED <<args, env, did, benchVars, isoVars>>
    /\ UNCHANGED <<partVars, badgeVars, funVars, runVars>>

\* mutant: --check-int8 is tested before --convert-int8
SelectedMode_int8_first(a) ==
    IF a.check_only THEN "check_only"
    ELSE IF a.check_int8 THEN "check_int8"
    ELSE IF a.convert_int8 THEN "convert_int8"
    ELSE "benchmark"

\* main(): which branch runs after the system checks (first match wins)
SelectedMode(a) ==
    IF a.check_only THEN "check_only"
    ELSE IF a.convert_int8 THEN "convert_int8"
    ELSE IF a.check_int8 THEN "check_int8"
    ELSE "benchmark"

\* What locating the model can meet: --model PATH exists or not; else
\* download_model(preset): the cache file exists (intact, or a corrupt or
\* partial earlier download), or it is absent and mkdir raises, urlretrieve
\* stores the file, returns without a file, or raises
LocateOutcomes(a) ==
    IF a.model THEN {"arg_exists", "arg_missing"}
    ELSE {"cached", "cached_corrupt", "mkdir_raised", "downloaded",
          "download_absent", "download_raised"}

\* mutant: the download is made whether or not the file is cached
LocateWork_always_download(o) ==
    IF o \in {"arg_exists", "arg_missing"} THEN {"locate"}
    ELSE IF o = "mkdir_raised" THEN {"locate", "mkdir"}
    ELSE {"locate", "mkdir", "download"}

\* Work started by locating the model
LocateWork(o) ==
    IF o \in {"downloaded", "download_absent", "download_raised"}
    THEN {"locate", "mkdir", "download"}
    ELSE IF o = "mkdir_raised" THEN {"locate", "mkdir"}
    ELSE {"locate"}

\* Exit state of the process when the model cannot be had ("" when it can)
LocateFailure(o) ==
    IF o \in {"arg_missing", "download_absent"} THEN "1"
    ELSE IF o \in {"download_raised", "mkdir_raised"} THEN "traceback"
    ELSE ""

LocateLines(o) ==
    IF o = "arg_missing" THEN << "fail:model_not_found" >>
    ELSE IF o \in {"cached", "cached_corrupt"} THEN << "info:model_cached" >>
    ELSE IF o = "downloaded" THEN << "info:downloading", "ok:model_saved" >>
    ELSE IF o = "download_absent" THEN << "info:downloading", "fail:download_failed" >>
    ELSE IF o = "download_raised" THEN << "info:downloading" >>
    ELSE << >>

\* mutant: the quantization status is reported but not returned to the shell
Int8ExitCode_always_zero(q) == "0"

\* sys.exit(0 if is_int8 else 1)
Int8ExitCode(q) == IF q = "yes" THEN "0" ELSE "1"

\* Exit status the shell sees: an uncaught exception ends the interpreter
\* with status 1
ExitStatus(e) == IF e = "0" THEN 0 ELSE 1

\* main(), --check-only: return right after the system checks
main_check_only ==
    /\ pc = "main_modes"
    /\ SelectedMode(args) = "check_only"
    /\ console' = Append(console, "blank")
    /\ pc' = "exited"
    /\ procExit' = "0"
    /\ UNCHANGED <<args, diag, env, sys_info, did, benchVars, isoVars>>
    /\ UNCHANGED <<partVars, badgeVars, funVars, runVars>>

\* main(), --convert-int8 SOURCE: convert_model_int8 and return
main_convert_int8 ==
    /\ pc = "main_modes"
    /\ SelectedMode(args) = "convert_int8"
    /\ \E src \in {"missing", "savedmodel", "keras", "tflite", "unknown"},
          q \in {"yes", "no"} :
        IF src = "missing"
        THEN /\ console' = Append(console, "fail:source_not_found")
             /\ procExit' = "1"
             /\ env' = [env EXCEPT !.source = src]
             /\ UNCHANGED did
        ELSE IF src \in {"tflite", "unknown"}
        THEN /\ console' = console \o << "header:convert", "info:load_source",
                                         "fail:convert_format" >>
             /\ procExit' = "1"
             /\ env' = [env EXCEPT !.source = src]
             /\ did' = did \cup {"convert"}
        ELSE /\ console' = console \o << "header:convert", "info:load_source",
                                         "ok:int8_saved", "header:verify",
                                         IF q = "yes" THEN "ok:int8" ELSE "warn:not_int8",
                                         "blank" >>
             /\ procExit' = "0"
             /\ env' = [env EXCEPT !.source = src, !.is_int8 = q]
             /\ did' = did \cup {"convert", "int8check"}
    /\ pc' = "exited"
    /\ UNCHANGED <<args, diag, sys_info, benchVars, isoVars>>
    /\ UNCHANGED <<partVars, badgeVars, funVars, runVars>>

\* main(), --check-int8: locate the model, check_model_int8, exit 0 or 1
main_check_int8 ==
    /\ pc = "main_modes"
    /\ SelectedMode(args) = "check_int8"
    /\ \E o \in LocateOutcomes(args), q \in {"yes", "no", "raises"} :
        IF LocateFailure(o) # ""
        THEN /\ q = "raises"
             /\ console' = console \o LocateLines(o)
             /\ procExit' = LocateFailure(o)
             /\ env' = [env EXCEPT !.model = o]
             /\ did' = did \cup LocateWork(o)
        ELSE IF q = "raises"
        THEN \* the interpreter rejects the file inside check_model_int8
             /\ console' = console \o LocateLines(o) \o << "header:int8" >>
             /\ procExit' = "traceback"
             /\ env' = [env EXCEPT !.model = o]
             /\ did' = did \cup LocateWork(o) \cup {"int8check"}
        ELSE /\ console' = console \o LocateLines(o)
                             \o << "header:int8",
                                   IF q = "yes" THEN "ok:int8" ELSE "warn:not_int8",
                                   "blank" >>
             /\ procExit' = Int8ExitCode(q)
             /\ env' = [env EXCEPT !.model = o, !.is_int8 = q]
             /\ did' = did \cup LocateWork(o) \cup {"int8check"}
    /\ pc' = "exited"
    /\ UNCHANGED <<args, diag, sys_info, benchVars, isoVars>>
    /\ UNCHANGED <<partVars, badgeVars, funVars, runVars>>

\* main(), no early-exit mode: locate the model, then run_inference_test
main_determine_model ==
    /\ pc = "main_modes"
    /\ SelectedMode(args) = "benchmark"
    /\ \E o \in LocateOutcomes(args) :
        /\ console' = console \o LocateLines(o)
        /\ env' = [env EXCEPT !.model = o]
        /\ did' = did \cup LocateWork(o)
        /\ IF LocateFailure(o) # ""
           THEN /\ procExit' = LocateFailure(o)
                /\ pc' = "exited"
           ELSE /\ pc' = "inference"
                /\ UNCHANGED procExit
    /\ UNCHANGED <<args, diag, sys_info, benchVars, isoVars>>
    /\ UNCHANGED <<partVars, badgeVars, funVars, runVars>>

----------------------------------------------------------------------------
(* run_inference_test: CPU baseline, then the NPU benchmark in a child     *)

\* Exit codes a finished child can have: 0, a Python error, SIGSEGV, an
\* unnamed realtime signal
ChildExitCodes == {0, 1, -11, -40}

\* signal.Signals._value2member_map_: the signal numbers that have a name
SignalNames == (1..31) \cup {34, 64}

\* mutant: the liveness test after the join is left out
IsAlive_unchecked(c) == FALSE

\* proc.is_alive()
IsAlive(c) == c \notin {"unstarted", "exited"}

\* mutant: only a signal counts as a failed child
ExitCodeFailed_signal_only(c, code) == c = "exited" /\ code < 0

\* "exitcode is None or exitcode != 0"
ExitCodeFailed(c, code) == c # "exited" \/ code # 0

\* Lines printed for a failed exit code
CrashLines(code) ==
    << "fail:npu_crashed" >>
    \o (IF code < 0
        THEN << IF -code \in SignalNames THEN "info:signal_name" ELSE "info:signal_number" >>
        ELSE << >>)
    \o << "info:tip_smaller_preset" >>

\* mutant: only a JSON decoding error is caught
ReadResult_decode_errors_only(f) ==
    IF f = "valid" THEN "result"
    ELSE IF f = "missing" THEN "raise"
    ELSE "None"

\* open(result_file) + json.load + the two conversions, inside try/except
\* Exception: the value returned for each content of the file
ReadResult(f) == IF f = "valid" THEN "result" ELSE "None"

\* mutant: the file is removed on the success path only
Cleanup_on_success_only(f, path) == IF path = "success" THEN "missing" ELSE f

\* finally: Path(result_file).unlink(missing_ok=True), on the way out of
\* the branch named by path
Cleanup(f, path) == "missing"

\* run_inference_test, up to the call of _run_npu_benchmark_isolated
cpu_benchmark ==
    /\ pc = "inference"
    /\ \E loads \in BOOLEAN, q \in {"yes", "no"} :
        IF ~loads
        THEN \* the interpreter rejects the model file
             /\ console' = console \o << "header:inference", "info:model" >>
             /\ procExit' = "traceback"
             /\ pc' = "exited"
             /\ did' = did \cup {"int8check"}
             /\ UNCHANGED <<env, cpu_result>>
        ELSE /\ env' = [env EXCEPT !.is_int8 = q]
             /\ did' = did \cup {"int8check", "cpu_bench"}
             /\ cpu_result' = TRUE
             /\ UNCHANGED procExit
             /\ IF sys_info.teflon_path
                THEN /\ console' = console \o
                          << "header:inference", "info:model",
                             IF q = "yes" THEN "ok:int8" ELSE "warn:not_int8",
                             "info:cpu_start", "ok:cpu_result", "info:npu_start" >>
                     /\ pc' = "iso_tmpfile"
                ELSE /\ console' = console \o
                          << "header:inference", "info:model",
                             IF q = "yes" THEN "ok:int8" ELSE "warn:not_int8",
                             "info:cpu_start", "ok:cpu_result",
                             "warn:npu_skipped", "info:cpu_only" >>
                     /\ pc' = "after_iso"
    /\ UNCHANGED <<args, diag, sys_info, npu_result, partition_info, isoVars>>
    /\ UNCHANGED <<partVars, badgeVars, funVars, runVars>>

\* tempfile.NamedTemporaryFile(..., delete=False): the empty result file
iso_create_tempfile ==
    /\ pc = "iso_tmpfile"
    /\ \E created \in BOOLEAN :
        IF created
        THEN /\ result_file' = "empty"
             /\ pc' = "iso_start"
             /\ UNCHANGED procExit
        ELSE /\ procExit' = "traceback"
             /\ pc' = "exited"
             /\ UNCHANGED result_file
    /\ UNCHANGED <<args, diag, env, sys_info, console, did, benchVars,
                   child, exitcode, waited, fileRead, npu_raw, isoPath>>
    /\ UNCHANGED <<partVars, badgeVars, funVars, runVars>>

\* multiprocessing.Process(...); proc.start()
iso_start ==
    /\ pc = "iso_start"
    /\ \E started \in BOOLEAN :
        IF started
        THEN /\ child' = "running"
             /\ did' = did \cup {"npu_child"}
             /\ pc' = "iso_join"
             /\ UNCHANGED <<console, result_file, npu_raw, isoPath>>
        ELSE \* except Exception ... finally
             /\ console' = Append(console, "fail:npu_error")
             /\ npu_raw' = "None"
             /\ isoPath' = "start_error"
             /\ pc' = "iso_finally"
             /\ UNCHANGED <<child, did, result_file>>
    /\ UNCHANGED <<args, diag, env, sys_info, procExit, benchVars,
                   exitcode, waited, fileRead>>
    /\ UNCHANGED <<partVars, badgeVars, funVars, runVars>>

\* time passes while the parent blocks in proc.join(timeout=300)
join_tick ==
    /\ pc = "iso_join"
    /\ child # "exited"
    /\ waited < JoinTimeout
    /\ waited' = Min(waited + TickSeconds, JoinTimeout)
    /\ UNCHANGED <<args, diag, env, pc, sys_info, console, procExit, did,
                   benchVars, result_file, child, exitcode, fileRead, npu_raw,
                   isoPath>>
    /\ UNCHANGED <<partVars, badgeVars, funVars, runVars>>

\* proc.join(timeout=300) returns: the child ended or the timeout expired
iso_join_returns ==
    /\ pc = "iso_join"
    /\ child = "exited" \/ waited >= JoinTimeout
    /\ pc' = "iso_is_alive"
    /\ UNCHANGED <<args, diag, env, sys_info, console, procExit, did,
                   benchVars, isoVars>>
    /\ UNCHANGED <<partVars, badgeVars, funVars, runVars>>

\* if proc.is_alive():
iso_is_alive ==
    /\ pc = "iso_is_alive"
    /\ pc' = IF IsAlive(child) THEN "iso_kill" ELSE "iso_exitcode"
    /\ UNCHANGED <<args, diag, env, sys_info, console, procExit, did,
                   benchVars, isoVars>>
    /\ UNCHANGED <<partVars, badgeVars, funVars, runVars>>

\* proc.kill(); proc.join(); fail("NPU Benchmark Timeout (300s)"); return None
iso_kill_on_timeout ==
    /\ pc = "iso_kill"
    /\ IF child # "exited"
       THEN child' = "exited" /\ exitcode' = -9
       ELSE UNCHANGED <<child, exitcode>>
    /\ console' = Append(console, "fail:npu_timeout")
    /\ npu_raw' = "None"
    /\ isoPath' = "timeout"
    /\ pc' = "iso_finally"
    /\ UNCHANGED <<args, diag, env, sys_info, procExit, did, benchVars,
                   result_file, waited, fileRead>>
    /\ UNCHANGED <<partVars, badgeVars, funVars, runVars>>

\* exitcode is None or != 0: report the crash, return None
iso_exitcode_failure ==
    /\ pc = "iso_exitcode"
    /\ ExitCodeFailed(child, exitcode)
    /\ console' = console \o CrashLines(exitcode)
    /\ npu_raw' = "None"
    /\ isoPath' = "crashed"
    /\ pc' = "iso_finally"
    /\ UNCHANGED <<args, diag, env, sys_info, procExit, did, benchVars,
                   result_file, child, exitcode, waited, fileRead>>
    /\ UNCHANGED <<partVars, badgeVars, funVars, runVars>>

\* exit code 0: open and parse the result file, return it (or None on error)
iso_read_result ==
    /\ pc = "iso_exitcode"
    /\ ~ExitCodeFailed(child, exitcode)
    /\ fileRead' = result_file
    /\ LET r == ReadResult(result_file) IN
        IF r = "raise"
        THEN /\ isoPath' = "raised"
             /\ UNCHANGED <<console, npu_raw>>
        ELSE /\ npu_raw' = r
             /\ isoPath' = IF r = "result" THEN "success" ELSE "read_error"
             /\ console' = IF r = "result" THEN console
                           ELSE Append(console, "fail:npu_error")
    /\ pc' = "iso_finally"
    /\ UNCHANGED <<args, diag, env, sys_info, procExit, did, benchVars,
                   result_file, child, exitcode, waited>>
    /\ UNCHANGED <<partVars, badgeVars, funVars, runVars>>

\* finally: unlink the result file; then the return (or the exception) leaves
\* _run_npu_benchmark_isolated
iso_finally ==
    /\ pc = "iso_finally"
    /\ result_file' = Cleanup(result_file, isoPath)
    /\ IF isoPath = "raised"
       THEN pc' = "exited" /\ procExit' = "traceback"
       ELSE pc' = "after_iso" /\ UNCHANGED procExit
    /\ UNCHANGED <<args, diag, env, sys_info, console, did, benchVars,
                   child, exitcode, waited, fileRead, npu_raw, isoPath>>
    /\ UNCHANGED <<partVars, badgeVars, funVars, runVars>>

\* _npu_worker: the benchmark is over, open(result_file, "w") truncates it
child_open_result_file ==
    /\ child = "running"
    /\ child' = "writing"
    /\ result_file' = "empty"
    /\ UNCHANGED <<args, diag, env, pc, sys_info, console, procExit, did,
                   benchVars, exitcode, waited, fileRead, npu_raw, isoPath>>
    /\ UNCHANGED <<partVars, badgeVars, funVars, runVars>>

\* _npu_worker: json.dump has flushed part of the document
child_flush_partial ==
    /\ child = "writing"
    /\ result_file = "empty"
    /\ result_file' = "partial"
    /\ UNCHANGED <<args, diag, env, pc, sys_info, console, procExit, did,
                   benchVars, child, exitcode, waited, fileRead, npu_raw, isoPath>>
    /\ UNCHANGED <<partVars, badgeVars, funVars, runVars>>

\* _npu_worker: the with-block closes the file, the worker returns, exit code 0
child_finish ==
    /\ child = "writing"
    /\ result_file' = IF result_file \in {"empty", "partial"} THEN "valid"
                      ELSE result_file
    /\ child' = "exited"
    /\ exitcode' = 0
    /\ UNCHANGED <<args, diag, env, pc, sys_info, console, procExit, did,
                   benchVars, waited, fileRead, npu_raw, isoPath>>
    /\ UNCHANGED <<partVars, badgeVars, funVars, runVars>>

\* the child ends early: a Python error, a signal from the driver, or native
\* code leaving the process with status 0 before the worker wrote anything
child_terminates ==
    /\ child \in {"running", "writing"}
    /\ \E code \in ChildExitCodes :
        /\ code = 0 => child = "running"
        /\ exitcode' = code
    /\ child' = "exited"
    /\ UNCHANGED <<args, diag, env, pc, sys_info, console, procExit, did,
                   benchVars, result_file, waited, fileRead, npu_raw, isoPath>>
    /\ UNCHANGED <<partVars, badgeVars, funVars, runVars>>

\* the result file lives in the shared temp directory (delete=False): another
\* process removes or overwrites it before the parent reads it
external_file_change ==
    /\ child = "exited"
    /\ pc = "iso_exitcode"
    /\ \E c \in {"missing", "invalid"} :
        /\ result_file # c
        /\ result_file' = c
    /\ UNCHANGED <<args, diag, env, pc, sys_info, console, procExit, did,
                   benchVars, child, exitcode, waited, fileRead, npu_raw, isoPath>>
    /\ UNCHANGED <<partVars, badgeVars, funVars, runVars>>

\* mutant: the tuple is unpacked without the None test
NpuResultOf_unguarded(raw) == IF raw = "result" THEN "result" ELSE "TypeError"

\* "if npu_raw is not None: npu_result, partition_info = npu_raw"
NpuResultOf(raw) == IF raw = "result" THEN "result" ELSE "none"

\* The Result section of run_inference_test
ResultSection(npu, verdict, same) ==
    << "header:result" >>
    \o (IF npu = "result"
        THEN << verdict, IF same THEN "ok:output_consistent" ELSE "warn:output_differs" >>
        ELSE << "info:cpu_inference", "warn:no_npu_comparison" >>)
    \o << "blank" >>

\* run_inference_test after _run_npu_benchmark_isolated returned (or was skipped)
run_inference_test_report ==
    /\ pc = "after_iso"
    /\ LET r == NpuResultOf(npu_raw) IN
        IF r \notin {"result", "none"}
        THEN /\ procExit' = "traceback"
             /\ UNCHANGED <<console, npu_result, partition_info>>
        ELSE \E verdict \in {"ok:npu_faster", "warn:npu_similar", "fail:npu_slower"},
                same \in BOOLEAN,
                pinfo \in {"none", "info"} :
             /\ r = "none" => (verdict = "ok:npu_faster" /\ same /\ pinfo = "none")
             /\ ~args.trace => pinfo = "none"
             /\ npu_result' = r
             /\ partition_info' = pinfo
             /\ console' = console
                    \o (IF r = "result" THEN << "ok:npu_result" >> ELSE << >>)
                    \o (IF args.trace /\ r = "result"
                        THEN << "header:trace",
                                IF pinfo = "info" THEN "info:partitions"
                                ELSE "warn:trace_unavailable" >>
                        ELSE << >>)
                    \o ResultSection(r, verdict, same)
             /\ procExit' = "0"
    /\ pc' = "exited"
    /\ UNCHANGED <<args, diag, env, sys_info, did, cpu_result, isoVars>>
    /\ UNCHANGED <<partVars, badgeVars, funVars, runVars>>

ToolNext ==
    \/ run_system_checks
    \/ main_check_only
    \/ main_convert_int8
    \/ main_check_int8
    \/ main_determine_model
    \/ cpu_benchmark
    \/ iso_create_tempfile
    \/ iso_start
    \/ join_tick
    \/ iso_join_returns
    \/ iso_is_alive
    \/ iso_kill_on_timeout
    \/ iso_exitcode_failure
    \/ iso_read_result
    \/ iso_finally
    \/ child_open_result_file
    \/ child_flush_partial
    \/ child_finish
    \/ child_terminates
    \/ external_file_change
    \/ run_inference_test_report

----------------------------------------------------------------------------
(* _analyze_delegate_partitions: backward tracing from the delegate nodes  *)

NumRegular == 2
NumDelegates == 2

\* Tensors 0..NumRegular-1 are written by the builtin ops; ModelInput is the
\* tensor nobody writes (the model input, a weight or a bias)
ProducedByOps == 0..(NumRegular - 1)
ModelInput == NumRegular

RECURSIVE SetToSeq(_)
SetToSeq(S) ==
    IF S = {} THEN << >>
    ELSE LET m == CHOOSE x \in S : \A y \in S : x <= y
         IN << m >> \o SetToSeq(S \ {m})

SeqToSet(seq) == {seq[i] : i \in 1..Len(seq)}

\* The builtin ops as _get_ops_details() lists them: op i writes tensor i and
\* reads any set of tensors (cycles and shared tensors included); the first
\* op also reads the model input
RegularLists ==
    { [i \in 1..NumRegular |->
         [index |-> i - 1, op_name |-> "OP",
          inputs |-> SetToSeq(c[i] \cup (IF i = 1 THEN {ModelInput} ELSE {})),
          outputs |-> << i - 1 >>]] :
      c \in [1..NumRegular -> SUBSET ProducedByOps] }

\* The DELEGATE nodes follow the builtin ops in the list; each hands back a
\* non-empty set of tensors written by builtin ops, or the one tensor that
\* has no producer; no tensor is handed back by two nodes. Their "inputs" are
\* not read by the trace.
DelegateOutputs == ((SUBSET ProducedByOps) \ {{}}) \cup {{ModelInput}}

DelegateLists ==
    UNION { { [k \in 1..n |->
                 [index |-> NumRegular + k - 1, op_name |-> "DELEGATE",
                  inputs |-> << >>, outputs |-> SetToSeq(c[k])]] :
              c \in { f \in [1..n -> DelegateOutputs] :
                         \A a \in 1..n : \A b \in 1..n :
                             a # b => f[a] \cap f[b] = {} } } :
            n \in 0..NumDelegates }

OpGraphs == { r \o d : r \in RegularLists, d \in DelegateLists }

IsDelegate(op) == op.op_name = "DELEGATE"
IsRegular(op) == op.op_name # "DELEGATE"

\* the two list comprehensions over npu_ops
regular_ops(ops) == SelectSeq(ops, IsRegular)
all_delegates(ops) == SelectSeq(ops, IsDelegate)

MinOf(seq) == CHOOSE x \in SeqToSet(seq) : \A y \in SeqToSet(seq) : x <= y

\* mutant: the delegates stay in the order of the op list
SortByMinOutput_unsorted(ds) == ds

\* teflon_delegates.sort(key=lambda d: min(d["outputs"])): stable, ascending
RECURSIVE SortByMinOutput(_)
SortByMinOutput(ds) ==
    IF ds = << >> THEN << >>
    ELSE LET k == CHOOSE i \in 1..Len(ds) :
                    /\ \A j \in 1..Len(ds) : MinOf(ds[i].outputs) <= MinOf(ds[j].outputs)
                    /\ \A j \in 1..(i - 1) : MinOf(ds[j].outputs) # MinOf(ds[i].outputs)
             rest == [j \in 1..(Len(ds) - 1) |-> IF j < k THEN ds[j] ELSE ds[j + 1]]
         IN << ds[k] >> \o SortByMinOutput(rest)

\* tensor_producer: for each tensor the index of the last regular op writing it
ProducedTensors(ops) ==
    UNION { SeqToSet(regular_ops(ops)[i].outputs) : i \in 1..Len(regular_ops(ops)) }

tensor_producer(ops) ==
    [t \in ProducedTensors(ops) |->
        LET r == regular_ops(ops)
            last == CHOOSE i \in 1..Len(r) :
                        /\ t \in SeqToSet(r[i].outputs)
                        /\ \A j \in (i + 1)..Len(r) : t \notin SeqToSet(r[j].outputs)
        IN r[last].index]

\* op_by_index restricted to what the loop needs: the inputs of a regular op
RegularIndexes(ops) == {regular_ops(ops)[i].index : i \in 1..Len(regular_ops(ops))}

\* mutant: the producer's inputs are not followed
op_by_index_no_inputs(ops) ==
    [x \in RegularIndexes(ops) |->
        LET r == regular_ops(ops)
        IN [r[CHOOSE i \in 1..Len(r) : r[i].index = x] EXCEPT !.inputs = << >>]]

op_by_index(ops) ==
    [x \in RegularIndexes(ops) |->
        LET r == regular_ops(ops)
        IN r[CHOOSE i \in 1..Len(r) : r[i].index = x]]

\* mutant: only the current partition is consulted
AlreadyClaimed_current_only(op_idx, abs, all_abs) == op_idx \in abs

\* "if op_idx in absorbed or op_idx in all_absorbed: continue"
AlreadyClaimed(op_idx, abs, all_abs) == op_idx \in abs \/ op_idx \in all_abs

PartResultUnset ==
    [num_partitions |-> 0, total_regular_ops |-> 0, absorbed_ops |-> 0,
     cpu_fallback_ops |-> 0, partitions |-> << >>]

RECURSIVE SumLens(_)
SumLens(lists) ==
    IF lists = << >> THEN 0 ELSE Len(Head(lists)) + SumLens(Tail(lists))

PartIdle ==
    /\ npu_ops = << >>
    /\ ppc = "idle"
    /\ teflon_delegates = << >>
    /\ td = 1
    /\ absorbed = {}
    /\ visited = {}
    /\ queue = << >>
    /\ all_absorbed = {}
    /\ absorbed_per_partition = << >>
    /\ part_result = PartResultUnset
    /\ trace_lines = << >>

PartInit ==
    /\ npu_ops = << >>
    /\ ppc = "load"
    /\ teflon_delegates = << >>
    /\ td = 1
    /\ absorbed = {}
    /\ visited = {}
    /\ queue = << >>
    /\ all_absorbed = {}
    /\ absorbed_per_partition = << >>
    /\ part_result = PartResultUnset
    /\ trace_lines = << >>

\* npu_ops = npu_interpreter._get_ops_details()
get_ops_details ==
    /\ ppc = "load"
    /\ npu_ops' \in OpGraphs
    /\ ppc' = "start"
    /\ UNCHANGED <<teflon_delegates, td, absorbed, visited, queue, all_absorbed,
                   absorbed_per_partition, part_result, trace_lines>>
    /\ UNCHANGED <<toolVars, badgeVars, funVars, runVars>>

\* split of the op list; the early return without delegates; the sort
analyze_begin ==
    /\ ppc = "start"
    /\ IF all_delegates(npu_ops) = << >>
       THEN /\ part_result' =
                 [num_partitions |-> 0,
                  total_regular_ops |-> Len(regular_ops(npu_ops)),
                  absorbed_ops |-> 0,
                  cpu_fallback_ops |-> Len(regular_ops(npu_ops)),
                  partitions |-> << >>]
            /\ ppc' = "done"
            /\ UNCHANGED teflon_delegates
       ELSE /\ teflon_delegates' = SortByMinOutput(all_delegates(npu_ops))
            /\ ppc' = "for_td"
            /\ UNCHANGED part_result
    /\ UNCHANGED <<npu_ops, td, absorbed, visited, queue, all_absorbed,
                   absorbed_per_partition, trace_lines>>
    /\ UNCHANGED <<toolVars, badgeVars, funVars, runVars>>

\* for td in teflon_delegates: fresh absorbed/visited, queue = its outputs
partition_begin ==
    /\ ppc = "for_td"
    /\ td <= Len(teflon_delegates)
    /\ absorbed' = {}
    /\ visited' = {}
    /\ queue' = teflon_delegates[td].outputs
    /\ ppc' = "while"
    /\ UNCHANGED <<npu_ops, teflon_delegates, td, all_absorbed,
                   absorbed_per_partition, part_result, trace_lines>>
    /\ UNCHANGED <<toolVars, badgeVars, funVars, runVars>>

\* one iteration of "while queue:"
trace_step ==
    /\ ppc = "while"
    /\ queue # << >>
    /\ LET tensor == queue[Len(queue)]
           popped == SubSeq(queue, 1, Len(queue) - 1)
       IN IF tensor \in visited
          THEN /\ queue' = popped
               /\ UNCHANGED <<visited, absorbed>>
          ELSE /\ visited' = visited \cup {tensor}
               /\ IF tensor \notin DOMAIN tensor_producer(npu_ops)
                  THEN /\ queue' = popped
                       /\ UNCHANGED absorbed
                  ELSE LET op_idx == tensor_producer(npu_ops)[tensor]
                       IN IF AlreadyClaimed(op_idx, absorbed, all_absorbed)
                          THEN /\ queue' = popped
                               /\ UNCHANGED absorbed
                          ELSE /\ absorbed' = absorbed \cup {op_idx}
                               /\ queue' = popped \o op_by_index(npu_ops)[op_idx].inputs
    /\ UNCHANGED <<npu_ops, ppc, teflon_delegates, td, all_absorbed,
                   absorbed_per_partition, part_result, trace_lines>>
    /\ UNCHANGED <<toolVars, badgeVars, funVars, runVars>>

\* the queue is empty: record the partition, merge it into all_absorbed
partition_end ==
    /\ ppc = "while"
    /\ queue = << >>
    /\ absorbed_per_partition' =
           Append(absorbed_per_partition,
                  SetToSeq(absorbed \cap RegularIndexes(npu_ops)))
    /\ all_absorbed' = all_absorbed \cup absorbed
    /\ td' = td + 1
    /\ ppc' = "for_td"
    /\ UNCHANGED <<npu_ops, teflon_delegates, absorbed, visited, queue, part_result,
                   trace_lines>>
    /\ UNCHANGED <<toolVars, badgeVars, funVars, runVars>>

\* after the loop: cpu_fallback and the returned PartitionInfo
analyze_finish ==
    /\ ppc = "for_td"
    /\ td > Len(teflon_delegates)
    /\ part_result' =
           [num_partitions |-> Len(teflon_delegates),
            total_regular_ops |-> Len(regular_ops(npu_ops)),
            absorbed_ops |-> SumLens(absorbed_per_partition),
            cpu_fallback_ops |->
                Cardinality({i \in 1..Len(regular_ops(npu_ops)) :
                                regular_ops(npu_ops)[i].index \notin all_absorbed}),
            partitions |-> [i \in 1..Len(absorbed_per_partition) |->
                               [num_ops |-> Len(absorbed_per_partition[i])]]]
    /\ ppc' = "done"
    /\ UNCHANGED <<npu_ops, teflon_delegates, td, absorbed, visited, queue,
                   all_absorbed, absorbed_per_partition, trace_lines>>
    /\ UNCHANGED <<toolVars, badgeVars, funVars, runVars>>

\* pct > p for pct = absorbed / total_ops * 100 (0 when total_ops = 0)
PctAbove(absorbed_ops, total_ops, p) ==
    total_ops > 0 /\ absorbed_ops * 100 > p * total_ops

\* the if / elif / elif chain that closes the report; nothing for pct = 0
TraceVerdict(absorbed_ops, total_ops, npu_slower) ==
    IF PctAbove(absorbed_ops, total_ops, 90)
    THEN << "ok:npu_voll_genutzt" >>
         \o (IF npu_slower THEN << "info:trotzdem_langsamer" >> ELSE << >>)
    ELSE IF PctAbove(absorbed_ops, total_ops, 50)
    THEN << "warn:cpu_fallback_bremst" >>
    ELSE IF PctAbove(absorbed_ops, total_ops, 0)
    THEN << "warn:kaum_npu_nutzung" >>
    ELSE << >>

\* the summary line with the counts it shows
AbsorbedSummary(info) ==
    [tag |-> "ok:absorbiert", num_partitions |-> info.num_partitions,
     absorbed |-> info.absorbed_ops, total_ops |-> info.total_regular_ops]

\* the lines _print_partition_trace prints for a PartitionInfo
PartitionTraceLines(info, npu_slower) ==
    IF info.num_partitions = 0
    THEN << [tag |-> "header:partition_trace"],
            [tag |-> "fail:keine_ops_uebernommen"] >>
    ELSE << [tag |-> "header:partition_trace"], AbsorbedSummary(info) >>
         \o [i \in 1..Len(info.partitions) |->
                [tag |-> "info:partition", nr |-> i,
                 num_ops |-> info.partitions[i].num_ops]]
         \o (IF info.cpu_fallback_ops > 0
             THEN << [tag |-> "warn:cpu_fallback",
                      num_ops |-> info.cpu_fallback_ops] >>
             ELSE << >>)
         \o [i \in 1..Len(TraceVerdict(info.absorbed_ops, info.total_regular_ops,
                                       npu_slower)) |->
                [tag |-> TraceVerdict(info.absorbed_ops, info.total_regular_ops,
                                      npu_slower)[i]]]

\* the report on the returned PartitionInfo; whether the NPU mean is above
\* the CPU mean comes from the two benchmarks
print_partition_trace ==
    /\ ppc = "done"
    /\ trace_lines = << >>
    /\ \E npu_slower \in BOOLEAN :
          trace_lines' = PartitionTraceLines(part_result, npu_slower)
    /\ UNCHANGED <<npu_ops, ppc, teflon_delegates, td, absorbed, visited, queue,
                   all_absorbed, absorbed_per_partition, part_result>>
    /\ UNCHANGED <<toolVars, badgeVars, funVars, runVars>>

PartNext ==
    \/ get_ops_details
    \/ analyze_begin
    \/ partition_begin
    \/ trace_step
    \/ partition_end
    \/ analyze_finish
    \/ print_partition_trace

----------------------------------------------------------------------------
(* repo_scripts/update_badge.py: main(), run again and again by the CI job *)

MaxDays == 2
MaxCount == 1

history_filename == "sbcstuff_clone_history.json"
badge_filename == "sbcstuff_clone_count.json"

Days == 1..MaxDays

\* {count, uniques} of one day of traffic
ClonePairs ==
    { p \in [count : 0..MaxCount, uniques : 0..MaxCount] :
        p.uniques <= p.count /\ (p.count > 0 => p.uniques >= 1) }

\* clones_data.clones: one entry per day of the window, oldest first
TrafficWindows ==
    UNION { { [i \in 1..Cardinality(D) |->
                 [timestamp |-> SetToSeq(D)[i],
                  count |-> f[SetToSeq(D)[i]].count,
                  uniques |-> f[SetToSeq(D)[i]].uniques]] :
              f \in [D -> ClonePairs] } :
            D \in SUBSET Days }

NoClones == [is_none |-> TRUE, clones |-> << >>]

\* str(c.timestamp)
TimestampKey(t) == "2024-01-" \o ToString(t)

\* json.dumps(history): the document as a token list, keys in dict order
RECURSIVE DumpEntries(_)
DumpEntries(h) ==
    IF h = << >> THEN << >>
    ELSE << Head(h).key, ToString(Head(h).count), ToString(Head(h).uniques) >>
         \o DumpEntries(Tail(h))

json_dumps(h) == << "{" >> \o DumpEntries(h) \o << "}" >>

\* int(...) of a decimal token written by json.dumps
ParseInt(tok) == CHOOSE n \in 0..(MaxDays * MaxCount + MaxCount) : ToString(n) = tok

RECURSIVE ParseEntries(_)
ParseEntries(toks) ==
    IF toks = << >> THEN << >>
    ELSE << [key |-> toks[1], count |-> ParseInt(toks[2]), uniques |-> ParseInt(toks[3])] >>
         \o ParseEntries(SubSeq(toks, 4, Len(toks)))

\* json.loads(content): "dict" with the entries, "other" for a JSON value that
\* is no object, "error" when the text is no JSON
json_loads(content) ==
    IF Len(content) >= 2 /\ content[1] = "{" /\ content[Len(content)] = "}"
       /\ (Len(content) - 2) % 3 = 0
    THEN [kind |-> "dict", entries |-> ParseEntries(SubSeq(content, 2, Len(content) - 1))]
    ELSE IF content = << "[", "]" >>
    THEN [kind |-> "other", entries |-> << >>]
    ELSE [kind |-> "error", entries |-> << >>]

HasKey(h, k) == \E i \in 1..Len(h) : h[i].key = k

\* mutant: an existing day is added to instead of replaced
DictSet_accumulate(h, k, c, u) ==
    IF HasKey(h, k)
    THEN [i \in 1..Len(h) |->
             IF h[i].key = k
             THEN [key |-> k, count |-> h[i].count + c, uniques |-> h[i].uniques + u]
             ELSE h[i]]
    ELSE Append(h, [key |-> k, count |-> c, uniques |-> u])

\* history[key] = {"count": c.count, "uniques": c.uniques}
DictSet(h, k, c, u) ==
    IF HasKey(h, k)
    THEN [i \in 1..Len(h) |->
             IF h[i].key = k THEN [key |-> k, count |-> c, uniques |-> u] ELSE h[i]]
    ELSE Append(h, [key |-> k, count |-> c, uniques |-> u])

\* the merge loop over clones_data.clones
RECURSIVE MergeClones(_, _)
MergeClones(h, clones) ==
    IF clones = << >> THEN h
    ELSE MergeClones(DictSet(h, TimestampKey(Head(clones).timestamp),
                             Head(clones).count, Head(clones).uniques),
                     Tail(clones))

\* mutant: the counts are collected in a set before they are added
RECURSIVE SumCounts_distinct(_)
SumCounts_distinct(h) ==
    IF h = << >> THEN 0
    ELSE (IF \E i \in 2..Len(h) : h[i].count = Head(h).count THEN 0 ELSE Head(h).count)
         + SumCounts_distinct(Tail(h))

\* sum(d["count"] for d in history.values())
RECURSIVE SumCounts(_)
SumCounts(h) == IF h = << >> THEN 0 ELSE Head(h).count + SumCounts(Tail(h))

\* badge_data, as written with json.dumps
BadgeData(total) ==
    << "schemaVersion", "1", "label", "Clones", "message", ToString(total),
       "color", "blue", "namedLogo", "github", "logoColor", "white" >>

\* What the gist can hold before the first run: nothing, a history that is no
\* JSON, a history that is a JSON list
InitialGists ==
    { << >>,
      [n \in {history_filename} |-> << "<html>" >>],
      [n \in {history_filename} |-> << "[", "]" >>] }

\* mutant: only the history file is sent
GistEdit_history_only(files, h, total) ==
    [n \in DOMAIN files \cup {history_filename} |->
        IF n = history_filename THEN json_dumps(h) ELSE files[n]]

\* gist.edit(files={history_filename: ..., badge_filename: ...}): the files
\* of the gist after the call
GistEdit(files, h, total) ==
    [n \in DOMAIN files \cup {history_filename, badge_filename} |->
        IF n = history_filename THEN json_dumps(h)
        ELSE IF n = badge_filename THEN BadgeData(total)
        ELSE files[n]]

TokenNames == {"REPO_TOKEN", "GIST_TOKEN"}

\* mutant: only the first lookup is made with os.environ[...]
TokensMissing_repo_only(e) == "REPO_TOKEN" \notin e

\* os.environ["REPO_TOKEN"], os.environ["GIST_TOKEN"]: TRUE when one of the
\* two lookups raises KeyError
TokensMissing(e) == "REPO_TOKEN" \notin e \/ "GIST_TOKEN" \notin e

\* mutant: a failed load keeps nothing but is not told apart from a load
LoadHistory_unlogged(files, readable) ==
    IF history_filename \notin DOMAIN files
    THEN [log |-> "fresh", kind |-> "dict", entries |-> << >>]
    ELSE IF ~readable \/ json_loads(files[history_filename]).kind = "error"
    THEN [log |-> "loaded", kind |-> "dict", entries |-> << >>]
    ELSE [log |-> "loaded",
          kind |-> json_loads(files[history_filename]).kind,
          entries |-> json_loads(files[history_filename]).entries]

\* history = {}; try: ... json.loads(gist.files[history_filename].content)
\* ... except Exception: the value of "history" after the block and the line
\* it printed. readable is FALSE when reading the content raises.
LoadHistory(files, readable) ==
    IF history_filename \notin DOMAIN files
    THEN [log |-> "fresh", kind |-> "dict", entries |-> << >>]
    ELSE IF ~readable \/ json_loads(files[history_filename]).kind = "error"
    THEN [log |-> "error", kind |-> "dict", entries |-> << >>]
    ELSE [log |-> "loaded",
          kind |-> json_loads(files[history_filename]).kind,
          entries |-> json_loads(files[history_filename]).entries]

BadgeIdle ==
    /\ gist_files = << >>
    /\ bpc = "idle"
    /\ clones_data = NoClones
    /\ history = << >>
    /\ total_clones = 0
    /\ boutcome = "none"
    /\ net_calls = << >>
    /\ gist = << >>
    /\ environ = {}
    /\ load_log = "none"

BadgeInit ==
    /\ gist_files \in InitialGists
    /\ bpc = "launch"
    /\ clones_data = NoClones
    /\ history = << >>
    /\ total_clones = 0
    /\ boutcome = "none"
    /\ net_calls = << >>
    /\ gist = << >>
    /\ environ = {}
    /\ load_log = "none"

\* A new process: install_and_import("github", "pygithub") at import time.
\* A package that is not importable is installed with pip first; the import
\* in the finally clause raises when that did not help.
badge_import ==
    /\ bpc = "launch"
    /\ clones_data' = NoClones
    /\ history' = << >>
    /\ total_clones' = 0
    /\ gist' = << >>
    /\ load_log' = "none"
    /\ environ' = {}
    /\ \/ /\ net_calls' = << >>
          /\ bpc' = "start"
          /\ boutcome' = "running"
       \/ /\ net_calls' = << "pip.install" >>
          /\ \/ bpc' = "start" /\ boutcome' = "running"
             \/ bpc' = "launch" /\ boutcome' = "ImportError"
    /\ UNCHANGED gist_files
    /\ UNCHANGED <<toolVars, partVars, funVars, runVars>>

\* main(), lines up to the traffic fetch: _load_include_local, tokens,
\* clients, get_repo, get_clones_traffic
badge_fetch_traffic ==
    /\ bpc = "start"
    /\ \E e \in SUBSET TokenNames :
        \* os.environ once _load_include_local has made its setdefault calls
        /\ environ' = e
        /\ IF TokensMissing(e)
           THEN /\ boutcome' = "KeyError"
                /\ bpc' = "launch"
                /\ UNCHANGED <<net_calls, clones_data>>
           ELSE \/ /\ boutcome' = "traffic_error"
                   /\ bpc' = "launch"
                   /\ \/ net_calls' = Append(net_calls, "get_repo")
                      \/ net_calls' = net_calls \o << "get_repo", "get_clones_traffic" >>
                   /\ UNCHANGED clones_data
                \/ /\ \/ clones_data' = NoClones
                      \/ \E w \in TrafficWindows :
                            clones_data' = [is_none |-> FALSE, clones |-> w]
                   /\ net_calls' = net_calls \o << "get_repo", "get_clones_traffic" >>
                   /\ bpc' = "fetched"
                   /\ boutcome' = "running"
    /\ UNCHANGED <<gist_files, history, total_clones, gist, load_log>>
    /\ UNCHANGED <<toolVars, partVars, funVars, runVars>>

\* main(), from get_gist to gist.edit: load the history, merge, total, badge,
\* one update call
badge_update ==
    /\ bpc = "fetched"
    /\ bpc' = "launch"
    /\ \/ \* get_gist raises: it is called before the try block
          /\ boutcome' = "gist_error"
          /\ net_calls' = Append(net_calls, "get_gist")
          /\ UNCHANGED <<gist_files, history, total_clones, gist, load_log>>
       \/ \E readable \in BOOLEAN, edit_ok \in BOOLEAN :
            LET loaded == LoadHistory(gist_files, readable)
                merged == IF clones_data.is_none THEN loaded.entries
                          ELSE MergeClones(loaded.entries, clones_data.clones)
            IN /\ readable \/ history_filename \in DOMAIN gist_files
               /\ gist' = gist_files
               /\ load_log' = loaded.log
               /\ IF loaded.kind = "other"
                  THEN \* a JSON value without item assignment or .values()
                       /\ edit_ok
                       /\ boutcome' = "traceback"
                       /\ net_calls' = Append(net_calls, "get_gist")
                       /\ UNCHANGED <<gist_files, history, total_clones>>
                  ELSE /\ history' = merged
                       /\ total_clones' = SumCounts(merged)
                       /\ net_calls' = net_calls \o << "get_gist", "gist.edit" >>
                       /\ IF edit_ok
                          THEN /\ gist_files' = GistEdit(gist_files, merged, SumCounts(merged))
                               /\ boutcome' = "updated"
                          ELSE /\ boutcome' = "edit_error"
                               /\ UNCHANGED gist_files
    /\ UNCHANGED <<clones_data, environ>>
    /\ UNCHANGED <<toolVars, partVars, funVars, runVars>>

BadgeNext ==
    \/ badge_import
    \/ badge_fetch_traffic
    \/ badge_update

----------------------------------------------------------------------------
(* rock5b-npu-test.py: num_runs_for_model, check_kernel and the verdict of *)
(* run_inference_test, applied to inputs of their own                      *)

MiB == 1024 * 1024

BENCHMARK_NUM_RUNS == 50
MODEL_SIZE_FALLBACK_RUNS == 20

\* (threshold in bytes, runs), in the order the loop visits them
MODEL_SIZE_THRESHOLDS == << << 5 * MiB, 100 >>, << 20 * MiB, 50 >> >>

MaxModelMiB == 25

\* model_path.stat(): a size in bytes around every whole MiB, or OSError
StatResults ==
    { [ok |-> TRUE, st_size |-> k * MiB + d] :
        k \in 0..MaxModelMiB, d \in {0, 1, MiB - 1} }
    \cup { [ok |-> FALSE, st_size |-> 0] }

\* mutant: a file of exactly the threshold size still counts as below it
SizeBelow_inclusive(size, threshold) == size <= threshold

\* "if size < threshold"
SizeBelow(size, threshold) == size < threshold

\* "for threshold, runs in MODEL_SIZE_THRESHOLDS: ... return runs", then the
\* fallback
RECURSIVE RunsForSize(_, _)
RunsForSize(size, thresholds) ==
    IF thresholds = << >> THEN MODEL_SIZE_FALLBACK_RUNS
    ELSE IF SizeBelow(size, Head(thresholds)[1]) THEN Head(thresholds)[2]
    ELSE RunsForSize(size, Tail(thresholds))

num_runs_for_model(stat) ==
    IF ~stat.ok THEN BENCHMARK_NUM_RUNS
    ELSE RunsForSize(stat.st_size, MODEL_SIZE_THRESHOLDS)

MaxReleaseLen == 4

DigitChars == {"0", "1", "2", "3", "4", "5", "6", "7", "8", "9"}

\* platform.release() as a sequence of characters
ReleaseChars == {"0", "1", "6", "7", "8", ".", "-"}

ReleaseStrings ==
    UNION { [1..n -> ReleaseChars] : n \in 0..MaxReleaseLen }
    \cup { << "6", ".", "1", "8", ".", "0" >>,
           << "7", ".", "0", ".", "0" >>,
           << "6", ".", "1", "7", ".", "9" >>,
           << "6", ".", "1", "8", "-", "r", "c", "1" >>,
           << "1", "0", ".", "2" >>,
           << "6", ".", "2", "0", "0" >> }

\* \d+ at position i: the length of the longest run of digits starting there
RECURSIVE DigitRun(_, _)
DigitRun(ver, i) ==
    IF i > Len(ver) \/ ver[i] \notin DigitChars THEN 0
    ELSE 1 + DigitRun(ver, i + 1)

\* int(text) of a run of decimal digits
RECURSIVE ParseDecimal(_)
ParseDecimal(digits) ==
    IF digits = << >> THEN 0
    ELSE 10 * ParseDecimal(SubSeq(digits, 1, Len(digits) - 1))
         + (CHOOSE d \in 0..9 : ToString(d) = digits[Len(digits)])

\* re.match(r"(\d+)\.(\d+)", ver): the two groups when the pattern matches
\* at the start of ver
ReleaseMatch(ver) ==
    LET n1 == DigitRun(ver, 1)
        n2 == DigitRun(ver, n1 + 2)
    IN IF n1 >= 1 /\ n1 + 1 <= Len(ver) /\ ver[n1 + 1] = "." /\ n2 >= 1
       THEN [matched |-> TRUE,
             group1 |-> SubSeq(ver, 1, n1),
             group2 |-> SubSeq(ver, n1 + 2, n1 + 1 + n2)]
       ELSE [matched |-> FALSE, group1 |-> << >>, group2 |-> << >>]

\* mutant: both comparisons are required
KernelSupported_conjunctive(major, minor) == major >= 6 /\ minor >= 18

\* "(major > 6) or (major == 6 and minor >= 18)"
KernelSupported(major, minor) == major > 6 \/ (major = 6 /\ minor >= 18)

check_kernel(ver) ==
    LET match == ReleaseMatch(ver)
    IN IF ~match.matched THEN [ver |-> ver, supported |-> FALSE]
       ELSE [ver |-> ver,
             supported |-> KernelSupported(ParseDecimal(match.group1),
                                           ParseDecimal(match.group2))]

MaxMean == 12

\* mean_ms of a benchmark result, in a common unit
MeanValues == 0..MaxMean

\* the two thresholds as fractions: 1.2 and 0.8
NPU_SPEEDUP_THRESHOLD_FAST == << 12, 10 >>
NPU_SPEEDUP_THRESHOLD_SIMILAR == << 8, 10 >>

\* mutant: the threshold itself already counts
SpeedupAbove_inclusive(cpu_mean, npu_mean, threshold) ==
    cpu_mean * threshold[2] >= threshold[1] * npu_mean

\* "speedup > threshold" for speedup = cpu_mean / npu_mean, npu_mean > 0
SpeedupAbove(cpu_mean, npu_mean, threshold) ==
    cpu_mean * threshold[2] > threshold[1] * npu_mean

\* The comparison of the Result section: the lines printed and the factor
\* shown, speedup or 1/speedup, as << numerator, denominator >>
SpeedupVerdict(cpu_mean, npu_mean) ==
    IF npu_mean = 0
    THEN [lines |-> << "ZeroDivisionError" >>, factor |-> << 0, 0 >>]
    ELSE IF SpeedupAbove(cpu_mean, npu_mean, NPU_SPEEDUP_THRESHOLD_FAST)
    THEN [lines |-> << "ok:npu_faster" >>, factor |-> << cpu_mean, npu_mean >>]
    ELSE IF SpeedupAbove(cpu_mean, npu_mean, NPU_SPEEDUP_THRESHOLD_SIMILAR)
    THEN [lines |-> << "warn:npu_similar", "info:possible_causes" >>,
          factor |-> << cpu_mean, npu_mean >>]
    ELSE IF cpu_mean = 0
    THEN [lines |-> << "ZeroDivisionError" >>, factor |-> << 0, 0 >>]
    ELSE [lines |-> << "fail:npu_slower", "info:delegate_misused" >>,
          factor |-> << npu_mean, cpu_mean >>]

\* nothing has been applied yet
\* ---- update_badge.py: _load_include_local

MaxLineLen == 3
MaxLines == 1

\* characters of a line of include.local.sh: a letter, the separator, the
\* comment sign, whitespace, a quote
LineChars == {"K", "=", "#", " ", "'"}
QuoteChars == {"\"", "'"}

RECURSIVE StringsUpTo(_, _)
StringsUpTo(chars, n) ==
    IF n = 0 THEN {<< >>}
    ELSE LET shorter == StringsUpTo(chars, n - 1)
         IN shorter \cup {Append(t, c) : t \in shorter, c \in chars}

Lines == StringsUpTo(LineChars, MaxLineLen)

LineLists(n) == UNION {[1..m -> Lines] : m \in 0..n}

\* include.local.sh: not there, or its lines
IncludeFiles ==
    {[exists |-> FALSE, lines |-> << >>]}
        \cup {[exists |-> TRUE, lines |-> f] : f \in LineLists(MaxLines)}

\* os.environ before the call: variable K unset, set, or set to ""
EmptyEnviron == [k \in {} |-> << >>]
Environs ==
    {EmptyEnviron, << "K" >> :> << "o", "l", "d" >>, << "K" >> :> << >>}

\* str.strip(chars) and str.strip()
RECURSIVE LStrip(_, _)
LStrip(str, chars) ==
    IF str # << >> /\ Head(str) \in chars THEN LStrip(Tail(str), chars) ELSE str

RECURSIVE RStrip(_, _)
RStrip(str, chars) ==
    IF str # << >> /\ str[Len(str)] \in chars
    THEN RStrip(SubSeq(str, 1, Len(str) - 1), chars)
    ELSE str

StripChars(str, chars) == RStrip(LStrip(str, chars), chars)
Strip(str) == StripChars(str, {" "})

\* key, _, value = line.partition("=")
Partition(line) ==
    IF \E i \in 1..Len(line) : line[i] = "="
    THEN LET p == CHOOSE i \in 1..Len(line) :
                      line[i] = "=" /\ \A j \in 1..(i - 1) : line[j] # "="
         IN [key |-> SubSeq(line, 1, p - 1), sep |-> << "=" >>,
             value |-> SubSeq(line, p + 1, Len(line))]
    ELSE [key |-> line, sep |-> << >>, value |-> << >>]

\* mutant: the file's value replaces the one already set
SetDefault_overwrite(e, key, value) ==
    [k \in DOMAIN e \cup {key} |-> IF k = key THEN value ELSE e[k]]

\* os.environ.setdefault(key, value)
SetDefault(e, key, value) ==
    IF key \in DOMAIN e THEN e ELSE e @@ (key :> value)

\* one pass of the for loop: the environment after the line, and whether
\* putenv refused the name (an empty one)
LoadLine(e, raw) ==
    LET line == Strip(raw)
        parts == Partition(line)
    IN IF line = << >> \/ Head(line) = "#" THEN [environ |-> e, raised |-> FALSE]
       ELSE IF parts.sep = << >> THEN [environ |-> e, raised |-> FALSE]
       ELSE IF Strip(parts.key) = << >> /\ << >> \notin DOMAIN e
            THEN [environ |-> e, raised |-> TRUE]
       ELSE [environ |-> SetDefault(e, Strip(parts.key),
                                    StripChars(Strip(parts.value), QuoteChars)),
             raised |-> FALSE]

RECURSIVE LoadLines(_, _)
LoadLines(e, lines) ==
    IF lines = << >> THEN [environ |-> e, raised |-> FALSE]
    ELSE LET first == LoadLine(e, Head(lines))
         IN IF first.raised THEN first ELSE LoadLines(first.environ, Tail(lines))

_load_include_local(e, file) ==
    IF ~file.exists THEN [environ |-> e, raised |-> FALSE]
    ELSE LoadLines(e, file.lines)

\* ---- repo_scripts/blurimage.py: build_parser().parse_args(argv)

MaxValues == 2

VarArityFlags == {"--blur", "--blur-regex"}
BoolFlags == {"--no-invert", "--debug"}
ParserFlags == VarArityFlags \cup BoolFlags \cup {"--scale"}
IntTokens == {"3"}

IsPlain(t) == t \notin ParserFlags /\ t # "--"

NoImage == "(missing)"

\* the namespace before any argument is seen: the defaults
ParserDefaults ==
    [image |-> NoImage, blur |-> << >>, blur_regex |-> << >>, scale |-> 2,
     no_invert |-> FALSE, debug |-> FALSE]

\* a parse failure ends the process with status 2
ParseFailure == [exit |-> 2, args |-> ParserDefaults]

\* mutant: a flag takes one value only
PlainRun_one(ts) == IF ts # << >> /\ IsPlain(Head(ts)) THEN 1 ELSE 0

\* how many values a variable-arity flag collects: every following token up
\* to the next flag, the separator or the end
RECURSIVE PlainRun(_)
PlainRun(ts) ==
    IF ts # << >> /\ IsPlain(Head(ts)) THEN 1 + PlainRun(Tail(ts)) ELSE 0

IntOf(t) == IF t = "3" THEN 3 ELSE 0

\* a token in positional place: the image, once
RECURSIVE ParseFrom(_, _, _)
TakePositional(t, rest, ns, after_sep) ==
    IF ns.image = NoImage
    THEN ParseFrom(rest, [ns EXCEPT !.image = t], after_sep)
    ELSE ParseFailure

ParseFrom(ts, ns, after_sep) ==
    IF ts = << >>
    THEN IF ns.image = NoImage THEN ParseFailure ELSE [exit |-> 0, args |-> ns]
    ELSE LET t == Head(ts)
             rest == Tail(ts)
         IN IF after_sep THEN TakePositional(t, rest, ns, TRUE)
            ELSE IF t = "--" THEN ParseFrom(rest, ns, TRUE)
            ELSE IF t \in VarArityFlags
            THEN LET n == PlainRun(rest)
                     values == SubSeq(rest, 1, n)
                     left == SubSeq(rest, n + 1, Len(rest))
                 IN IF t = "--blur"
                    THEN ParseFrom(left, [ns EXCEPT !.blur = values], FALSE)
                    ELSE ParseFrom(left, [ns EXCEPT !.blur_regex = values], FALSE)
            ELSE IF t = "--scale"
            THEN IF rest # << >> /\ Head(rest) \in IntTokens
                 THEN ParseFrom(Tail(rest), [ns EXCEPT !.scale = IntOf(Head(rest))],
                                FALSE)
                 ELSE ParseFailure
            ELSE IF t = "--no-invert"
            THEN ParseFrom(rest, [ns EXCEPT !.no_invert = TRUE], FALSE)
            ELSE IF t = "--debug"
            THEN ParseFrom(rest, [ns EXCEPT !.debug = TRUE], FALSE)
            ELSE TakePositional(t, rest, ns, FALSE)

parse_args(argv) == ParseFrom(argv, ParserDefaults, FALSE)

\* the command lines tried: each flag at most once, in any order, --blur and
\* --blur-regex with one to MaxValues values, --scale with a number; the
\* image first, last, last behind "--", or left out
BlurWords == << "myuser", "elasticc.io", "word3", "word4" >>
RegexWords == << "rVFe\\S+", "[A-Z]{8,}", "regex3", "regex4" >>

FlagOrders ==
    { o \in UNION {[1..n -> ParserFlags] : n \in 0..Cardinality(ParserFlags)} :
        \A i \in 1..Len(o) : \A j \in 1..Len(o) : i # j => o[i] # o[j] }

ImageLayouts == {"first", "last", "last_sep", "none"}

Usages ==
    [image : {"screenshot.png"}, order : FlagOrders, layout : ImageLayouts,
     blur : {SubSeq(BlurWords, 1, n) : n \in 1..MaxValues},
     blur_regex : {SubSeq(RegexWords, 1, n) : n \in 1..MaxValues}]

FlagTokens(u, flag) ==
    IF flag = "--blur" THEN << flag >> \o u.blur
    ELSE IF flag = "--blur-regex" THEN << flag >> \o u.blur_regex
    ELSE IF flag = "--scale" THEN << flag, "3" >>
    ELSE << flag >>

RECURSIVE FlagPart(_, _)
FlagPart(u, order) ==
    IF order = << >> THEN << >>
    ELSE FlagTokens(u, Head(order)) \o FlagPart(u, Tail(order))

BuildArgv(u) ==
    IF u.layout = "first" THEN << u.image >> \o FlagPart(u, u.order)
    ELSE IF u.layout = "last" THEN FlagPart(u, u.order) \o << u.image >>
    ELSE IF u.layout = "last_sep" THEN FlagPart(u, u.order) \o << "--", u.image >>
    ELSE FlagPart(u, u.order)

NoCall == [fn |-> "none", arg |-> << >>, result |-> << >>]

FunIdle == call = NoCall

FunInit == call = NoCall

apply_num_runs_for_model ==
    /\ call = NoCall
    /\ \E stat \in StatResults :
        call' = [fn |-> "num_runs_for_model", arg |-> stat,
                 result |-> num_runs_for_model(stat)]
    /\ UNCHANGED <<toolVars, partVars, badgeVars, runVars>>

apply_check_kernel ==
    /\ call = NoCall
    /\ \E ver \in ReleaseStrings :
        call' = [fn |-> "check_kernel", arg |-> ver, result |-> check_kernel(ver)]
    /\ UNCHANGED <<toolVars, partVars, badgeVars, runVars>>

report_speedup ==
    /\ call = NoCall
    /\ \E cpu_mean \in MeanValues, npu_mean \in MeanValues :
        call' = [fn |-> "compare", arg |-> << cpu_mean, npu_mean >>,
                 result |-> SpeedupVerdict(cpu_mean, npu_mean)]
    /\ UNCHANGED <<toolVars, partVars, badgeVars, runVars>>

apply_load_include_local ==
    /\ call = NoCall
    /\ \E e \in Environs, file \in IncludeFiles :
        call' = [fn |-> "_load_include_local", arg |-> [environ |-> e, file |-> file],
                 result |-> _load_include_local(e, file)]
    /\ UNCHANGED <<toolVars, partVars, badgeVars, runVars>>

apply_parse_args ==
    /\ call = NoCall
    /\ \E u \in Usages :
        call' = [fn |-> "parse_args", arg |-> [usage |-> u, argv |-> BuildArgv(u)],
                 result |-> parse_args(BuildArgv(u))]
    /\ UNCHANGED <<toolVars, partVars, badgeVars, runVars>>

FunNext ==
    \/ apply_parse_args
    \/ apply_load_include_local
    \/ apply_num_runs_for_model
    \/ apply_check_kernel
    \/ report_speedup

----------------------------------------------------------------------------

(* benchmark_inference: the CPU run and the run in the NPU child           *)

CPU_WARMUP_RUNS == 5
NPU_WARMUP_RUNS == 20

MaxElems == 1

\* create_test_input: uint8 and int8 elements, or float32 ones written as
\* their four bytes; shape (1, n)
TestInputs ==
    LET ElementsOf(dtype) ==
            IF dtype = "uint8" THEN {0, 255}
            ELSE IF dtype = "int8" THEN {-128, 126}
            ELSE {<< 0, 0, 128, 63 >>, << 0, 0, 0, 0 >>}
    IN UNION { { [dtype |-> d, shape |-> << 1, n >>, data |-> x] :
                 x \in [1..n -> ElementsOf(d)] } :
               d \in {"uint8", "int8", "float32"}, n \in 1..MaxElems }

\* input_data.tobytes()
ToBytes(a) ==
    LET RECURSIVE Flatten(_)
        Flatten(quads) ==
            IF quads = << >> THEN << >> ELSE Head(quads) \o Flatten(Tail(quads))
    IN IF a.dtype = "uint8" THEN a.data
       ELSE IF a.dtype = "int8" THEN [i \in 1..Len(a.data) |-> (a.data[i] + 256) % 256]
       ELSE Flatten(a.data)

\* np.frombuffer(input_bytes, dtype=input_dtype)
FromBuffer(bytes, dtype) ==
    IF dtype = "uint8" THEN bytes
    ELSE IF dtype = "int8"
    THEN [i \in 1..Len(bytes) |-> IF bytes[i] >= 128 THEN bytes[i] - 256 ELSE bytes[i]]
    ELSE [i \in 1..(Len(bytes) \div 4) |-> SubSeq(bytes, 4 * i - 3, 4 * i)]

\* mutant: one warm-up count for both runs
WarmupRuns_same(side) == CPU_WARMUP_RUNS

\* num_warmup at the two call sites
WarmupRuns(side) == IF side = "cpu" THEN CPU_WARMUP_RUNS ELSE NPU_WARMUP_RUNS

\* num_runs of the call that is running: the driver's own, or the one
\* the child was started with
RunsParam == IF kpc = "cpu" THEN num_runs ELSE worker_args.num_runs

\* input_data of the call that is running; in the child it is
\* frombuffer(input_bytes, dtype=input_dtype).reshape(input_shape)
InputParam ==
    IF kpc = "cpu" THEN input_data
    ELSE [dtype |-> worker_args.input_dtype, shape |-> worker_args.input_shape,
          data |-> FromBuffer(worker_args.input_bytes, worker_args.input_dtype)]

\* before run_inference_test is entered
RunInit ==
    /\ kpc = "init"
    /\ phase = "none"
    /\ loop_i = 0
    /\ num_runs = 0
    /\ input_data = [dtype |-> "", shape |-> << >>, data |-> << >>]
    /\ teflon_path = FALSE
    /\ worker_args = [input_bytes |-> << >>, input_shape |-> << >>,
                      input_dtype |-> "", num_runs |-> 0]
    /\ interp = [s \in {"cpu", "npu"} |->
                    [tensor |-> << >>, log |-> << >>, times |-> << >>]]
    /\ bench_result = [s \in {"cpu", "npu"} |-> << >>]

\* run_inference_test up to the CPU call of benchmark_inference
run_inference_begin ==
    /\ kpc = "init"
    /\ \E stat \in StatResults, a \in TestInputs, t \in BOOLEAN :
          /\ num_runs' = num_runs_for_model(stat)
          /\ input_data' = a
          /\ teflon_path' = t
    /\ kpc' = "cpu"
    /\ phase' = "set"
    /\ UNCHANGED <<loop_i, worker_args, interp, bench_result>>
    /\ UNCHANGED <<toolVars, partVars, badgeVars, funVars>>

\* interpreter.set_tensor(input_details[0]["index"], input_data)
benchmark_set_tensor ==
    /\ kpc \in {"cpu", "npu"}
    /\ phase = "set"
    /\ interp' = [interp EXCEPT ![kpc].tensor = << InputParam >>,
                                ![kpc].log = Append(@, "set_tensor")]
    /\ phase' = "warmup"
    /\ loop_i' = 0
    /\ UNCHANGED <<kpc, num_runs, input_data, teflon_path, worker_args, bench_result>>
    /\ UNCHANGED <<toolVars, partVars, badgeVars, funVars>>

\* for _ in range(num_warmup): interpreter.invoke()
benchmark_warmup_invoke ==
    /\ kpc \in {"cpu", "npu"}
    /\ phase = "warmup"
    /\ loop_i < WarmupRuns(kpc)
    /\ interp' = [interp EXCEPT ![kpc].log = Append(@, "invoke")]
    /\ loop_i' = loop_i + 1
    /\ UNCHANGED <<kpc, phase, num_runs, input_data, teflon_path, worker_args,
                   bench_result>>
    /\ UNCHANGED <<toolVars, partVars, badgeVars, funVars>>

\* times = []
benchmark_start_timing ==
    /\ kpc \in {"cpu", "npu"}
    /\ phase = "warmup"
    /\ loop_i >= WarmupRuns(kpc)
    /\ interp' = [interp EXCEPT ![kpc].times = << >>]
    /\ phase' = "timed"
    /\ loop_i' = 0
    /\ UNCHANGED <<kpc, num_runs, input_data, teflon_path, worker_args, bench_result>>
    /\ UNCHANGED <<toolVars, partVars, badgeVars, funVars>>

\* for _ in range(num_runs): start; invoke(); elapsed; times.append(elapsed)
benchmark_timed_invoke ==
    /\ kpc \in {"cpu", "npu"}
    /\ phase = "timed"
    /\ loop_i < RunsParam
    /\ interp' = [interp EXCEPT ![kpc].log = Append(@, "timed_invoke"),
                                ![kpc].times = Append(@, "elapsed")]
    /\ loop_i' = loop_i + 1
    /\ UNCHANGED <<kpc, phase, num_runs, input_data, teflon_path, worker_args,
                   bench_result>>
    /\ UNCHANGED <<toolVars, partVars, badgeVars, funVars>>

\* get_tensor and the returned BenchmarkResult: the statistics of times and
\* "num_runs": num_runs; then on to the child, or the end
benchmark_return ==
    /\ kpc \in {"cpu", "npu"}
    /\ phase = "timed"
    /\ loop_i >= RunsParam
    /\ interp' = [interp EXCEPT ![kpc].log = Append(@, "get_tensor")]
    /\ bench_result' =
           [bench_result EXCEPT
               ![kpc] = << [num_runs |-> RunsParam,
                             samples |-> Len(interp[kpc].times)] >>]
    /\ kpc' = IF kpc = "npu" THEN "done"
              ELSE IF teflon_path THEN "spawn" ELSE "skipped"
    /\ phase' = "none"
    /\ UNCHANGED <<loop_i, num_runs, input_data, teflon_path, worker_args>>
    /\ UNCHANGED <<toolVars, partVars, badgeVars, funVars>>

\* _run_npu_benchmark_isolated starts _npu_worker with the array as bytes
npu_worker_start ==
    /\ kpc = "spawn"
    /\ worker_args' = [input_bytes |-> ToBytes(input_data),
                       input_shape |-> input_data.shape,
                       input_dtype |-> input_data.dtype,
                       num_runs |-> num_runs]
    /\ kpc' = "npu"
    /\ phase' = "set"
    /\ UNCHANGED <<loop_i, num_runs, input_data, teflon_path, interp, bench_result>>
    /\ UNCHANGED <<toolVars, partVars, badgeVars, funVars>>

RunNext ==
    \/ run_inference_begin
    \/ benchmark_set_tensor
    \/ benchmark_warmup_invoke
    \/ benchmark_start_timing
    \/ benchmark_timed_invoke
    \/ benchmark_return
    \/ npu_worker_start

----------------------------------------------------------------------------

Init == ToolInit /\ PartIdle /\ BadgeIdle /\ FunIdle /\ RunInit

Next == ToolNext

Spec == Init /\ [][Next]_vars

InitPartition == ToolIdle /\ PartInit /\ BadgeIdle /\ FunIdle /\ RunInit

SpecPartition == InitPartition /\ [][PartNext]_vars

\* "while queue:" runs its body as long as the work list is not empty
SpecPartitionFair == InitPartition /\ [][PartNext]_vars /\ WF_vars(trace_step)

InitBadge == ToolIdle /\ PartIdle /\ BadgeInit /\ FunIdle /\ RunInit

SpecBadge == InitBadge /\ [][BadgeNext]_vars

InitFunctions == ToolIdle /\ PartIdle /\ BadgeIdle /\ FunInit /\ RunInit

SpecFunctions == InitFunctions /\ [][FunNext]_vars

InitBenchmark == ToolIdle /\ PartIdle /\ BadgeIdle /\ FunIdle /\ RunInit

SpecBenchmark == InitBenchmark /\ [][RunNext]_vars

----------------------------------------------------------------------------
(* Properties                                                              *)

\* a line b is printed somewhere after a line a
PrintedAfter(seq, a, b) ==
    \E i \in 1..Len(seq) : \E j \in (i + 1)..Len(seq) : seq[i] = a /\ seq[j] = b

\* _run_npu_benchmark_isolated has returned to run_inference_test
IsoReturned == isoPath # "none" /\ pc \in {"after_iso", "exited"}

\* C1: when the NPU child crashes, is killed by a signal or times out, the
\* tool does not abort: the isolated call yields None, the process never ends
\* with a traceback or a failure status, and when it ends the Result section
\* carries the CPU-only line after the CPU benchmark was run.
C1_ChildFailureKeepsCpuResult ==
    isoPath \in {"crashed", "timeout"} =>
        /\ cpu_result
        /\ npu_raw = "None"
        /\ pc \in {"iso_finally", "after_iso", "exited"}
        /\ procExit \in {"running", "0"}
        /\ pc = "exited" =>
              /\ procExit = "0"
              /\ npu_result = "none"
              /\ PrintedAfter(console, "ok:cpu_result", "header:result")
              /\ PrintedAfter(console, "header:result", "info:cpu_inference")

C1_Witness ==
    /\ pc = "exited"
    /\ isoPath = "crashed"
    /\ exitcode = -11
    /\ Has(console, "info:signal_name")
    /\ PrintedAfter(console, "header:result", "info:cpu_inference")

\* C2: the parent blocks in join for at most 300 s; it reaches the kill only
\* with the full 300 s waited and the child alive; on that path the child is
\* killed, "NPU Benchmark Timeout" is reported and None is returned; and on
\* every path the child is not alive once the function has returned.
C2_TimeoutKillsChild ==
    /\ waited <= JoinTimeout
    /\ pc = "iso_kill" => waited = JoinTimeout
    /\ pc = "iso_exitcode" => child = "exited"
    /\ isoPath = "timeout" =>
          /\ waited = JoinTimeout
          /\ child = "exited"
          /\ npu_raw = "None"
          /\ Has(console, "fail:npu_timeout")
          /\ fileRead = "unread"
    /\ IsoReturned => child \in {"unstarted", "exited"}

C2_Witness ==
    /\ pc = "after_iso"
    /\ isoPath = "timeout"
    /\ exitcode = -9
    /\ waited = JoinTimeout

\* C3: _run_npu_benchmark_isolated never leaves through an exception on a
\* failure path: after a timeout, a failed or missing exit code, a signal, or
\* a result file that is missing, empty or no JSON after exit code 0, it has
\* returned None; it returns a result only for exit code 0 and a valid file.
C3_FailurePathsReturnNone ==
    /\ isoPath # "raised"
    /\ isoPath \in {"timeout", "crashed", "read_error", "start_error"} =>
          npu_raw = "None" /\ procExit # "traceback"
    /\ fileRead \in {"missing", "empty", "invalid", "partial"} =>
          isoPath = "read_error"
    /\ IsoReturned =>
          /\ npu_raw \in {"None", "result"}
          /\ npu_raw = "result" <=>
                (child = "exited" /\ exitcode = 0 /\ fileRead = "valid")

C3_Witness ==
    /\ pc = "after_iso"
    /\ isoPath = "read_error"
    /\ fileRead = "missing"
    /\ exitcode = 0
    /\ npu_raw = "None"

\* C4: the parent opens the result file only after the child has ended with
\* exit code 0; after a failed exit code or a kill on timeout it never opens
\* it; so what it reads is never a partially written document.
C4_ReadOnlyAfterCleanExit ==
    /\ fileRead # "unread" => (child = "exited" /\ exitcode = 0)
    /\ isoPath \in {"timeout", "crashed", "start_error"} => fileRead = "unread"
    /\ fileRead # "partial"

C4_Witness ==
    /\ pc = "iso_finally"
    /\ isoPath = "crashed"
    /\ result_file = "partial"
    /\ fileRead = "unread"

\* C5: once _run_npu_benchmark_isolated has returned, on whichever path, the
\* temporary result file it created no longer exists.
C5_TempFileDeleted ==
    IsoReturned => result_file = "missing"

C5_Witness ==
    /\ pc = "after_iso"
    /\ isoPath = "timeout"
    /\ result_file = "missing"
    /\ child = "exited"

\* ops of the finished partitions, as sets
PartitionSet(i) == SeqToSet(absorbed_per_partition[i])

AbsorbedUnion ==
    UNION { PartitionSet(i) : i \in 1..Len(absorbed_per_partition) }

\* C6: no op index belongs to two partitions (nor to the partition being
\* traced and a finished one); and in the returned PartitionInfo the absorbed
\* ops of all partitions together with the CPU-fallback ops are exactly the
\* non-delegate ops: absorbed_ops + cpu_fallback_ops = total_regular_ops.
C6_PartitionsDisjointAndComplete ==
    /\ \A i \in 1..Len(absorbed_per_partition) :
          \A j \in 1..Len(absorbed_per_partition) :
              i # j => PartitionSet(i) \cap PartitionSet(j) = {}
    /\ ppc = "while" => absorbed \cap AbsorbedUnion = {}
    /\ ppc = "done" =>
          /\ AbsorbedUnion \subseteq RegularIndexes(npu_ops)
          /\ part_result.total_regular_ops = Cardinality(RegularIndexes(npu_ops))
          /\ part_result.absorbed_ops = Cardinality(AbsorbedUnion)
          /\ part_result.cpu_fallback_ops =
                 Cardinality(RegularIndexes(npu_ops) \ AbsorbedUnion)
          /\ part_result.absorbed_ops + part_result.cpu_fallback_ops
                 = part_result.total_regular_ops

\* the trace of the second partition met an op the first one had claimed
C6_Witness ==
    /\ ppc = "done"
    /\ Len(teflon_delegates) = 2
    /\ part_result.absorbed_ops = 2
    /\ part_result.cpu_fallback_ops = 0
    /\ \E x \in PartitionSet(2) :
          \E t \in SeqToSet(op_by_index(npu_ops)[x].inputs) :
              /\ t \in DOMAIN tensor_producer(npu_ops)
              /\ tensor_producer(npu_ops)[t] \in PartitionSet(1)

\* C7: when the delegate library is not found, the process has ended with
\* exit status 1 inside run_system_checks whatever the command line was, the
\* remediation is printed, and no download, conversion or benchmark was
\* started; the fatal report is printed for no other diagnostic outcome.
C7_MissingDelegateIsFatal ==
    /\ diag.teflon = "missing" =>
          /\ pc = "exited"
          /\ procExit = "1"
          /\ did = {}
          /\ sys_info = SysInfoUnset
          /\ console[Len(console)] = "fail:teflon_not_found"
    /\ Has(console, "fail:teflon_not_found") => diag.teflon = "missing"

C7_Witness ==
    /\ diag.teflon = "missing"
    /\ args.check_only /\ args.check_int8 /\ args.convert_int8
    /\ procExit = "1"

\* C8: a run_system_checks step that finds the delegate returns the
\* SystemInfo of the probes and goes on to the mode dispatch without an exit
\* status, whatever the other probes found.
C8_OtherDiagnosticsProceed ==
    [][(pc = "main_start" /\ diag'.teflon = "found") =>
          /\ pc' = "main_modes"
          /\ procExit' = "running"
          /\ sys_info' = SystemInfoOf(diag')
          /\ sys_info'.teflon_path]_vars

C8_Witness ==
    /\ pc = "main_modes"
    /\ procExit = "running"
    /\ diag = [kernel |-> "unparsable", arch |-> "other", rocket |-> "missing",
               accel |-> "missing", devfreq |-> "absent", dmesg |-> "none",
               teflon |-> "found"]

BenchmarkWork == {"cpu_bench", "npu_child"}

\* C9: after the system checks the first set switch of --check-only,
\* --convert-int8, --check-int8 decides the run: --check-only starts no work;
\* else --convert-int8 starts the conversion only; else --check-int8 locates
\* the model and checks it only; a benchmark, and a model located for it,
\* occur only when none of the three is set, and then nothing is converted.
C9_EarlyExitOrder ==
    /\ args.check_only => did = {}
    /\ (~args.check_only /\ args.convert_int8) =>
          /\ did \subseteq {"convert", "int8check"}
          /\ (pc = "exited" /\ diag.teflon = "found") => env.source # "unset"
    /\ (~args.check_only /\ ~args.convert_int8 /\ args.check_int8) =>
          /\ did \subseteq {"locate", "mkdir", "download", "int8check"}
          /\ (pc = "exited" /\ diag.teflon = "found") => env.model # "unset"
    /\ did \cap BenchmarkWork # {} =>
          /\ ~args.check_only /\ ~args.convert_int8 /\ ~args.check_int8
          /\ "locate" \in did
          /\ "convert" \notin did
    /\ pc \notin {"main_start", "main_modes", "exited"} =>
          ~args.check_only /\ ~args.convert_int8 /\ ~args.check_int8

C9_Witness ==
    /\ pc = "exited"
    /\ ~args.check_only /\ args.convert_int8 /\ args.check_int8
    /\ "convert" \in did
    /\ procExit = "0"

\* every entry of the fetched window is in h with the same count and uniques
WindowIn(w, h) ==
    \A i \in 1..Len(w) :
        \E j \in 1..Len(h) :
            /\ h[j].key = TimestampKey(w[i].timestamp)
            /\ h[j].count = w[i].count
            /\ h[j].uniques = w[i].uniques

\* the gist as the run found it was written by an earlier run
GistFromEarlierRun ==
    /\ history_filename \in DOMAIN gist
    /\ badge_filename \in DOMAIN gist
    /\ json_loads(gist[history_filename]).kind = "dict"

\* C10: a run that updates a gist written by an earlier run, with a traffic
\* window whose timestamps are all in the stored history with the same
\* {count, uniques}, writes back the same history file and the same badge
\* file, and computes the total the stored history already had.
C10_MergeIsIdempotent ==
    (/\ boutcome = "updated"
     /\ load_log = "loaded"
     /\ GistFromEarlierRun
     /\ WindowIn(clones_data.clones, json_loads(gist[history_filename]).entries)) =>
        /\ gist_files = gist
        /\ history = json_loads(gist[history_filename]).entries
        /\ total_clones = SumCounts(json_loads(gist[history_filename]).entries)
        /\ BadgeData(total_clones) = gist[badge_filename]

C10_Witness ==
    /\ boutcome = "updated"
    /\ load_log = "loaded"
    /\ GistFromEarlierRun
    /\ Len(clones_data.clones) = MaxDays
    /\ WindowIn(clones_data.clones, json_loads(gist[history_filename]).entries)
    /\ total_clones = MaxDays * MaxCount
    /\ gist_files = gist

----------------------------------------------------------------------------
(* Badge Updater across runs                                               *)

\* the timestamp keys of the history document stored in a gist
RemoteKeys(files) ==
    IF history_filename \notin DOMAIN files THEN {}
    ELSE LET doc == json_loads(files[history_filename])
         IN IF doc.kind = "dict"
            THEN { doc.entries[i].key : i \in 1..Len(doc.entries) }
            ELSE {}

WindowKeys(w) == { TimestampKey(w[i].timestamp) : i \in 1..Len(w) }

\* a run has ended and nothing has been started since
RunEnded == bpc = "launch" /\ boutcome # "none"

\* number of remote mutations among the calls of a run
RECURSIVE Writes(_)
Writes(calls) ==
    IF calls = << >> THEN 0
    ELSE (IF Head(calls) \in {"gist.edit", "gist.create", "gist.delete"} THEN 1 ELSE 0)
         + Writes(Tail(calls))

\* the calls of a run that go to the GitHub API
GithubCalls(calls) == SelectSeq(calls, LAMBDA c : c # "pip.install")

\* C11 as stated: in every step of every sequence of runs, each timestamp key
\* of the remote history file is still a key of the remote history file after
\* the step; keys are never removed.
C11_HistoryNeverShrinks ==
    [][gist_files' # gist_files =>
          RemoteKeys(gist_files) \subseteq RemoteKeys(gist_files')]_vars

\* C11, amended: each timestamp key of the remote history file is still a key
\* of it after a run, unless the history load of that run failed ("Error
\* loading history"); such a run starts from an empty history and overwrites
\* the file with the fetched window alone.
C11_HistoryKeptWhenLoaded ==
    [][(gist_files' # gist_files /\ load_log' # "error") =>
          RemoteKeys(gist_files) \subseteq RemoteKeys(gist_files')]_vars

C11_Witness ==
    /\ boutcome = "updated"
    /\ load_log = "loaded"
    /\ RemoteKeys(gist) # {}
    /\ RemoteKeys(gist) \ WindowKeys(clones_data.clones) # {}
    /\ RemoteKeys(gist) \subseteq RemoteKeys(gist_files)
    /\ RemoteKeys(gist_files) # RemoteKeys(gist)

\* C12 as stated: every run that has ended made exactly one remote write.
C12_ExactlyOneWritePerRun ==
    RunEnded => Writes(net_calls) = 1

\* C12, amended: a run makes at most one remote write, the gist.edit call,
\* and makes it exactly when it gets as far as the update (it makes none when
\* it ends earlier); the gist changes in no other step, and a step that
\* changes it leaves both the history file, holding the run's history, and
\* the badge file, holding the run's total, in the gist.
C12_AtMostOneCombinedWrite ==
    /\ [](RunEnded =>
            /\ Writes(net_calls) <= 1
            /\ Writes(net_calls) = 1 <=> boutcome \in {"updated", "edit_error"}
            /\ \A i \in 1..Len(net_calls) :
                  net_calls[i] \in {"pip.install", "get_repo", "get_clones_traffic",
                                    "get_gist", "gist.edit"}
            /\ Writes(net_calls) = 1 => net_calls[Len(net_calls)] = "gist.edit")
    /\ [][gist_files' # gist_files =>
            /\ boutcome' = "updated"
            /\ Writes(net_calls') = 1
            /\ {history_filename, badge_filename} \subseteq DOMAIN gist_files'
            /\ gist_files'[history_filename] = json_dumps(history')
            /\ gist_files'[badge_filename] = BadgeData(total_clones')
            /\ \A n \in DOMAIN gist_files \ {history_filename, badge_filename} :
                  n \in DOMAIN gist_files' /\ gist_files'[n] = gist_files[n]]_vars

C12_Witness ==
    /\ boutcome = "updated"
    /\ badge_filename \notin DOMAIN gist
    /\ history_filename \notin DOMAIN gist
    /\ {history_filename, badge_filename} \subseteq DOMAIN gist_files
    /\ Writes(net_calls) = 1
    /\ Len(history) = MaxDays

\* C13 as stated: a run that ends with the lookup error of a missing token
\* has made no network call at all.
C13_NoNetworkBeforeKeyError ==
    (RunEnded /\ boutcome = "KeyError") => net_calls = << >>

\* C13, amended: when REPO_TOKEN or GIST_TOKEN is not set once the override
\* file has been applied, main ends with the lookup error before any call to
\* the GitHub API, so without a remote read or write of the repository or the
\* gist; the only network use that can precede it is the import-time
\* "pip install pygithub" of a missing package.
C13_NoApiCallBeforeKeyError ==
    /\ []((RunEnded /\ boutcome # "ImportError") =>
            /\ TokenNames \subseteq environ <=> boutcome # "KeyError"
            /\ boutcome = "KeyError" =>
                  /\ GithubCalls(net_calls) = << >>
                  /\ gist = << >>
                  /\ clones_data = NoClones)
    /\ [][boutcome' = "KeyError" => gist_files' = gist_files]_vars

C13_Witness ==
    /\ RunEnded
    /\ boutcome = "KeyError"
    /\ environ = {"REPO_TOKEN"}
    /\ net_calls = << "pip.install" >>
    /\ history_filename \in DOMAIN gist_files

\* C14: a run in which the existing history could not be had (the gist fetch
\* failed, the file is missing, its content is unreadable or no JSON) still
\* goes on with an empty history, merges the fetched traffic and makes the
\* update call.
C14_HistoryFailureIsNonFatal ==
    (RunEnded /\ (boutcome = "gist_error" \/ load_log \in {"fresh", "error"})) =>
        /\ boutcome \in {"updated", "edit_error"}
        /\ Writes(net_calls) = 1
        /\ RemoteKeys([n \in {history_filename} |-> json_dumps(history)])
              = WindowKeys(clones_data.clones)

\* sum of the count fields, taken over the entries as a set of positions
RECURSIVE CountSum(_, _)
CountSum(h, idx) ==
    IF idx = {} THEN 0
    ELSE LET i == CHOOSE j \in idx : \A k \in idx : j >= k
         IN h[i].count + CountSum(h, idx \ {i})

\* C15: in every run that computes a total, the total is the sum of the count
\* fields of the merged history in whatever order they are added; the badge
\* document of the run has that total, in decimal, as its message and the
\* fixed other fields; and after the update the badge file and the history
\* file of the gist agree.
C15_TotalIsSumOfCounts ==
    (RunEnded /\ boutcome \in {"updated", "edit_error"}) =>
        /\ total_clones = CountSum(history, DOMAIN history)
        /\ \A p \in Permutations(DOMAIN history) :
              total_clones = CountSum([i \in DOMAIN history |-> history[p[i]]],
                                      DOMAIN history)
        /\ BadgeData(total_clones) =
              << "schemaVersion", "1", "label", "Clones",
                 "message", ToString(total_clones),
                 "color", "blue", "namedLogo", "github", "logoColor", "white" >>
        /\ boutcome = "updated" =>
              /\ gist_files[badge_filename] = BadgeData(total_clones)
              /\ ParseInt(gist_files[badge_filename][6])
                    = CountSum(json_loads(gist_files[history_filename]).entries,
                               1..Len(json_loads(gist_files[history_filename]).entries))

C15_Witness ==
    /\ boutcome = "updated"
    /\ Len(history) = MaxDays
    /\ history[1].key = TimestampKey(MaxDays)
    /\ total_clones = MaxDays * MaxCount
    /\ gist_files[badge_filename][6] = ToString(MaxDays * MaxCount)

----------------------------------------------------------------------------
(* num_runs_for_model, check_kernel, the speedup verdict                   *)

DigitsValue(ver, from, to) ==
    LET Pow10[k \in 0..(to - from)] == IF k = 0 THEN 1 ELSE 10 * Pow10[k - 1]
        Sum[i \in (from - 1)..to] ==
            IF i < from THEN 0
            ELSE Sum[i - 1]
                 + Pow10[to - i] * (CHOOSE d \in 0..9 : ToString(d) = ver[i])
    IN Sum[to]

\* ver starts with digits, a dot and digits whose values are supported: the
\* major is ver[1..i], the minor is ver[i+2..j], each as long as it can be
StartsWithSupportedVersion(ver) ==
    \E i \in 1..Len(ver), j \in 1..Len(ver) :
        /\ i + 2 <= j
        /\ \A k \in 1..i : ver[k] \in DigitChars
        /\ ver[i + 1] = "."
        /\ \A k \in (i + 2)..j : ver[k] \in DigitChars
        /\ j = Len(ver) \/ ver[j + 1] \notin DigitChars
        /\ \/ DigitsValue(ver, 1, i) > 6
           \/ DigitsValue(ver, 1, i) = 6 /\ DigitsValue(ver, i + 2, j) >= 18

\* C17: check_kernel reports supported exactly when the release string starts
\* with major.minor and major > 6, or major = 6 and minor >= 18; it returns
\* false, as a value, for a string that does not start with major.minor.
C17_KernelSupported ==
    call.fn = "check_kernel" =>
        /\ call.result.supported \in BOOLEAN
        /\ call.result.ver = call.arg
        /\ call.result.supported <=> StartsWithSupportedVersion(call.arg)
        /\ call.arg = << "6", ".", "1", "8", ".", "0" >> => call.result.supported
        /\ call.arg = << "7", ".", "0", ".", "0" >> => call.result.supported
        /\ call.arg = << "6", ".", "1", "7", ".", "9" >> => ~call.result.supported

C17_Witness ==
    /\ call.fn = "check_kernel"
    /\ call.arg = << "7", ".", "0", ".", "0" >>
    /\ call.result.supported

\* the verdict lines among the lines printed
Verdicts(lines) ==
    SelectSeq(lines, LAMBDA l : l \in {"ok:npu_faster", "warn:npu_similar",
                                         "fail:npu_slower"})

----------------------------------------------------------------------------
(* --check-int8 and download_model                                         *)

\* C18: a run in --check-int8 mode (without --check-only and --convert-int8)
\* that got past the system checks locates or downloads the model, reports
\* the quantization status only, runs no CPU or NPU benchmark, starts no
\* child, and ends with status 0 when the model is fully quantized and
\* status 1 otherwise; a --model path that does not exist ends it with
\* status 1.
C18_CheckInt8ExitStatus ==
    (pc = "exited" /\ sys_info.teflon_path
     /\ args.check_int8 /\ ~args.check_only /\ ~args.convert_int8) =>
        /\ "locate" \in did
        /\ did \cap {"convert", "cpu_bench", "npu_child"} = {}
        /\ child = "unstarted" /\ result_file = "nofile"
        /\ cpu_result = FALSE /\ npu_result = "none"
        /\ ~Has(console, "header:inference") /\ ~Has(console, "header:result")
        /\ ExitStatus(procExit) = 0 <=> env.is_int8 = "yes"
        /\ env.is_int8 = "yes" => Has(console, "ok:int8")
        /\ env.is_int8 = "no" => Has(console, "warn:not_int8") /\ procExit = "1"
        /\ env.model = "arg_missing" =>
              /\ procExit = "1"
              /\ "int8check" \notin did
              /\ Has(console, "fail:model_not_found")

C18_Witness ==
    /\ pc = "exited"
    /\ args.check_int8 /\ ~args.check_only /\ ~args.convert_int8 /\ ~args.model
    /\ env.model = "downloaded"
    /\ env.is_int8 = "no"
    /\ procExit = "1"

\* the model was looked for with download_model(preset)
ViaDownloadModel ==
    env.model \in {"cached", "cached_corrupt", "mkdir_raised", "downloaded",
                   "download_absent", "download_raised"}

\* C19: download_model returns a file found at the cache path as it is,
\* without a download and whatever its content; the cache directory is
\* created and a download attempted only when the file is absent; and when
\* the file is not there after the attempt the process ends with a non-zero
\* status.
C19_CacheKeyedByFilename ==
    ViaDownloadModel =>
        /\ ~args.model
        /\ env.model \in {"cached", "cached_corrupt"} =>
              /\ did \cap {"mkdir", "download"} = {}
              /\ Has(console, "info:model_cached")
              /\ ~Has(console, "info:downloading")
              /\ pc = "exited" => "int8check" \in did
        /\ "download" \in did <=>
              env.model \in {"downloaded", "download_absent", "download_raised"}
        /\ "download" \in did => "mkdir" \in did
        /\ "mkdir" \in did => env.model \notin {"cached", "cached_corrupt"}
        /\ env.model \in {"download_absent", "download_raised", "mkdir_raised"} =>
              /\ pc = "exited"
              /\ ExitStatus(procExit) # 0
              /\ did \cap {"int8check", "cpu_bench", "npu_child"} = {}
        /\ env.model = "download_absent" =>
              procExit = "1" /\ Has(console, "fail:download_failed")
        /\ env.model = "downloaded" =>
              /\ Has(console, "ok:model_saved")
              /\ pc = "exited" => "int8check" \in did

C19_Witness ==
    /\ env.model = "cached_corrupt"
    /\ pc = "exited"
    /\ did = {"locate", "int8check"}
    /\ procExit = "traceback"
    /\ Has(console, "info:model_cached")

----------------------------------------------------------------------------
(* _print_partition_trace                                                  *)

TraceTags == {trace_lines[i].tag : i \in 1..Len(trace_lines)}

TracePrinted == trace_lines # << >>

\* the verdict the thresholds call for: > 90, 50-90, > 0-50 percent absorbed
VerdictByPercentage ==
    IF part_result.absorbed_ops * 100 > 90 * part_result.total_regular_ops
    THEN "ok:npu_voll_genutzt"
    ELSE IF part_result.absorbed_ops * 100 > 50 * part_result.total_regular_ops
    THEN "warn:cpu_fallback_bremst"
    ELSE "warn:kaum_npu_nutzung"

TraceVerdictTags ==
    {"ok:npu_voll_genutzt", "warn:cpu_fallback_bremst", "warn:kaum_npu_nutzung"}

\* C21: once the trace report is printed: if the analysis found no partition
\* or absorbed zero percent of the ops, the outright failure is reported;
\* otherwise the summary shows the absorbed count and total, and exactly the
\* verdict of the absorbed percentage is printed (> 90 fully utilized, 50-90
\* fallback slows things down, > 0-50 barely any NPU usage).
C21_ZeroAbsorbedReportsFailure ==
    TracePrinted =>
        IF part_result.num_partitions = 0 \/ part_result.absorbed_ops = 0
        THEN /\ "fail:keine_ops_uebernommen" \in TraceTags
             /\ TraceTags \cap TraceVerdictTags = {}
        ELSE /\ "fail:keine_ops_uebernommen" \notin TraceTags
             /\ \E i \in 1..Len(trace_lines) :
                   /\ trace_lines[i].tag = "ok:absorbiert"
                   /\ trace_lines[i].absorbed = part_result.absorbed_ops
                   /\ trace_lines[i].total_ops = part_result.total_regular_ops
             /\ TraceTags \cap TraceVerdictTags = {VerdictByPercentage}

----------------------------------------------------------------------------
(* order of the partitions                                                 *)

\* the delegate nodes handled so far, in the order they were handled
ProcessedDelegates ==
    [i \in 1..Len(absorbed_per_partition) |-> teflon_delegates[i]]

\* C24: the delegate nodes are handled in ascending order of their smallest
\* output tensor (the k-th finished partition belongs to the k-th node of
\* that order, and the order holds all delegate nodes of the op list); the
\* ops of the finished partitions are exactly the claimed ones; and no step
\* changes a finished partition or takes an op out of the claimed set: when a
\* partition is finished it adds its own, so far unclaimed, ops and leaves
\* the earlier partitions as they were.
C24_ProcessedInOrderNeverReassigned ==
    /\ [](ppc \in {"for_td", "while", "done"} /\ all_delegates(npu_ops) # << >> =>
            /\ Len(teflon_delegates) = Len(all_delegates(npu_ops))
            /\ SeqToSet(teflon_delegates) = SeqToSet(all_delegates(npu_ops))
            /\ \A i \in 1..Len(teflon_delegates) :
                  \A j \in i..Len(teflon_delegates) :
                      MinOf(teflon_delegates[i].outputs)
                          <= MinOf(teflon_delegates[j].outputs)
            /\ Len(absorbed_per_partition) = td - 1
            /\ all_absorbed = AbsorbedUnion)
    /\ [][/\ Len(absorbed_per_partition') >= Len(absorbed_per_partition)
          /\ \A i \in 1..Len(absorbed_per_partition) :
                absorbed_per_partition'[i] = absorbed_per_partition[i]
          /\ all_absorbed \subseteq all_absorbed'
          /\ Len(absorbed_per_partition') > Len(absorbed_per_partition) =>
                /\ Len(absorbed_per_partition') = Len(absorbed_per_partition) + 1
                /\ SeqToSet(absorbed_per_partition'[Len(absorbed_per_partition')])
                       \cap all_absorbed = {}
                /\ all_absorbed' =
                       all_absorbed
                       \cup SeqToSet(absorbed_per_partition'[Len(absorbed_per_partition')])
       ]_vars

\* the op list names the delegate with the larger tensor first; after the
\* sort the other one went first, and the later trace met an op it had claimed
C24_Witness ==
    /\ ppc = "done"
    /\ Len(teflon_delegates) = 2
    /\ teflon_delegates # all_delegates(npu_ops)
    /\ MinOf(teflon_delegates[1].outputs) < MinOf(teflon_delegates[2].outputs)
    /\ PartitionSet(1) # {}
    /\ PartitionSet(2) # {}
    /\ \E x \in PartitionSet(2) :
          \E t \in SeqToSet(op_by_index(npu_ops)[x].inputs) :
              /\ t \in DOMAIN tensor_producer(npu_ops)
              /\ tensor_producer(npu_ops)[t] \in PartitionSet(1)

----------------------------------------------------------------------------
(* what a partition absorbs                                                *)

\* read off the op list: the builtin ops writing a tensor of ts, except the
\* ones in claimed; and the tensors the ops of R read
UnclaimedProducers(ts, claimed) ==
    {npu_ops[k].index : k \in {n \in 1..Len(npu_ops) :
                                  /\ npu_ops[n].op_name # "DELEGATE"
                                  /\ SeqToSet(npu_ops[n].outputs) \cap ts # {}}}
        \ claimed

TensorsReadBy(R) ==
    UNION {SeqToSet(npu_ops[k].inputs) : k \in {n \in 1..Len(npu_ops) :
                                                   npu_ops[n].index \in R}}

\* the ops reachable backward through tensor -> producer -> its inputs,
\* never entering an op in claimed: the least set closed under the edges
RECURSIVE BackwardClosure(_, _)
BackwardClosure(R, claimed) ==
    LET more == UnclaimedProducers(TensorsReadBy(R), claimed)
    IN IF more \subseteq R THEN R ELSE BackwardClosure(R \cup more, claimed)

BackwardReach(outs, claimed) ==
    BackwardClosure(UnclaimedProducers(SeqToSet(outs), claimed), claimed)

\* the same loop with the tensors taken from the front of the work list
RECURSIVE TraceFrontFirst(_, _, _, _)
TraceFrontFirst(q, vis, abs, claimed) ==
    IF q = << >> THEN abs
    ELSE LET tensor == Head(q)
             rest == Tail(q)
         IN IF tensor \in vis THEN TraceFrontFirst(rest, vis, abs, claimed)
            ELSE IF tensor \notin DOMAIN tensor_producer(npu_ops)
            THEN TraceFrontFirst(rest, vis \cup {tensor}, abs, claimed)
            ELSE LET op_idx == tensor_producer(npu_ops)[tensor]
                 IN IF AlreadyClaimed(op_idx, abs, claimed)
                    THEN TraceFrontFirst(rest, vis \cup {tensor}, abs, claimed)
                    ELSE TraceFrontFirst(rest \o op_by_index(npu_ops)[op_idx].inputs,
                                         vis \cup {tensor},
                                         abs \cup {op_idx}, claimed)

\* the results of the loop for every order of taking tensors from the work
\* list. Taking a tensor that is in visited only removes it, so an order is
\* told by which pending tensor not yet visited is taken next.
RECURSIVE TraceAnyOrder(_, _, _, _)
TraceAnyOrder(pending, vis, abs, claimed) ==
    IF pending \ vis = {} THEN {abs}
    ELSE UNION { IF tensor \notin DOMAIN tensor_producer(npu_ops)
                 THEN TraceAnyOrder(pending, vis \cup {tensor}, abs, claimed)
                 ELSE LET op_idx == tensor_producer(npu_ops)[tensor]
                      IN IF AlreadyClaimed(op_idx, abs, claimed)
                         THEN TraceAnyOrder(pending, vis \cup {tensor}, abs, claimed)
                         ELSE TraceAnyOrder(
                                  pending \cup SeqToSet(op_by_index(npu_ops)[op_idx].inputs),
                                  vis \cup {tensor}, abs \cup {op_idx}, claimed)
               : tensor \in pending \ vis }

ClaimedBefore(i) == UNION { PartitionSet(j) : j \in 1..(i - 1) }

\* C25: when a partition is finished it holds exactly the builtin ops reachable
\* backward from its delegate's output tensors through producer edges, the
\* walk stopping at tensors without a producer and at ops an earlier
\* partition claimed; taking the tensors from the front of the work list, or
\* in any other order, gives the same set.
C25_AbsorbedIsBackwardReachable ==
    ppc = "for_td" /\ td > 1 =>
        LET i == td - 1
        IN /\ Len(absorbed_per_partition) = i
           /\ PartitionSet(i)
                  = BackwardReach(teflon_delegates[i].outputs, ClaimedBefore(i))
           /\ PartitionSet(i)
                  = TraceFrontFirst(teflon_delegates[i].outputs, {}, {},
                                    ClaimedBefore(i))
           /\ TraceAnyOrder(SeqToSet(teflon_delegates[i].outputs), {}, {},
                            ClaimedBefore(i)) = {PartitionSet(i)}

\* the second partition followed an edge into an op of the first and stopped
\* there; the first walked from its op on to the tensor nobody writes
C25_Witness ==
    /\ ppc = "for_td"
    /\ Len(absorbed_per_partition) = 2
    /\ PartitionSet(1) # {}
    /\ PartitionSet(2) # {}
    /\ PartitionSet(2) # BackwardReach(teflon_delegates[2].outputs, {})
    /\ ModelInput \in TensorsReadBy(PartitionSet(1))

----------------------------------------------------------------------------
(* termination of the backward trace                                       *)

\* the inputs of the op with index x, as the op list gives them
TensorsReadSeq(x) ==
    npu_ops[CHOOSE k \in 1..Len(npu_ops) : npu_ops[k].index = x].inputs

\* an op that reads a tensor it writes, and a tensor two builtin ops read
HasCycle ==
    \E k \in 1..Len(npu_ops) :
        /\ npu_ops[k].op_name # "DELEGATE"
        /\ SeqToSet(npu_ops[k].inputs) \cap SeqToSet(npu_ops[k].outputs) # {}

HasSharedTensor ==
    \E k \in 1..Len(npu_ops) : \E n \in 1..Len(npu_ops) :
        /\ k # n
        /\ SeqToSet(npu_ops[k].inputs) \cap SeqToSet(npu_ops[n].inputs)
               \cap ProducedByOps # {}

\* C26: every trace ends: whatever the op list, and from wherever the loop
\* stands, the work list becomes empty again. Each iteration takes the last
\* tensor off the list and either finds it in visited and does nothing
\* else, or adds it to visited for the first time; in that case it either
\* absorbs nothing, or absorbs one op that neither this partition nor an
\* earlier one holds and puts that op's inputs on the list.
C26_TraceTerminates ==
    /\ []<>(queue = << >>)
    /\ [][ppc = "while" /\ ppc' = "while" =>
            LET tensor == queue[Len(queue)]
                popped == SubSeq(queue, 1, Len(queue) - 1)
            IN IF tensor \in visited
               THEN visited' = visited /\ absorbed' = absorbed /\ queue' = popped
               ELSE /\ visited' = visited \cup {tensor}
                    /\ \/ absorbed' = absorbed /\ queue' = popped
                       \/ \E op_idx \in RegularIndexes(npu_ops)
                                        \ (absorbed \cup all_absorbed) :
                             /\ absorbed' = absorbed \cup {op_idx}
                             /\ queue' = popped \o TensorsReadSeq(op_idx)
       ]_vars

\* a trace over a cycle and a shared tensor has emptied its work list after
\* absorbing both ops
C26_Witness ==
    /\ ppc = "while"
    /\ queue = << >>
    /\ HasCycle
    /\ HasSharedTensor
    /\ Cardinality(absorbed) = 2
    /\ ModelInput \in visited

----------------------------------------------------------------------------
(* _load_include_local                                                     *)

LoadCalled == call.fn = "_load_include_local"

\* read off the raw line: it holds a "=", its first character that is not a
\* space is not "#", and the text before the first "=" is key once the
\* spaces around it are dropped
LineNames(raw, key) ==
    \E p \in 1..Len(raw) :
        /\ raw[p] = "="
        /\ \A j \in 1..(p - 1) : raw[j] # "="
        /\ \E a \in 1..Len(raw) :
              /\ raw[a] \notin {" ", "#"}
              /\ \A j \in 1..(a - 1) : raw[j] = " "
        /\ \E a \in 1..p : \E b \in 0..(p - 1) :
              /\ key = SubSeq(raw, a, b)
              /\ \A j \in 1..(a - 1) : raw[j] = " "
              /\ \A j \in (b + 1)..(p - 1) : raw[j] = " "
              /\ key = << >> \/ (raw[a] # " " /\ raw[b] # " ")

\* a blank line, a line starting with #, a line without "="
SetsNothing(raw) ==
    \/ \A j \in 1..Len(raw) : raw[j] = " "
    \/ \E a \in 1..Len(raw) : raw[a] = "#" /\ \A j \in 1..(a - 1) : raw[j] = " "
    \/ \A j \in 1..Len(raw) : raw[j] # "="

FileNames(file, key) ==
    file.exists /\ \E i \in 1..Len(file.lines) : LineNames(file.lines[i], key)

\* C22: after _load_include_local every variable that was set keeps the
\* value it had, whatever the file says about it; a variable is newly set
\* only if a KEY=value line of the file names it; so a file that is missing,
\* or holds only blank lines, lines starting with # and lines without "=",
\* leaves the environment as it was.
C22_OnlyUnsetVariablesAreSet ==
    LoadCalled =>
        LET before == call.arg.environ
            after == call.result.environ
        IN /\ \A k \in DOMAIN before : k \in DOMAIN after /\ after[k] = before[k]
           /\ \A k \in DOMAIN after \ DOMAIN before : FileNames(call.arg.file, k)
           /\ (\A i \in 1..Len(call.arg.file.lines) :
                   SetsNothing(call.arg.file.lines[i]))
                 => after = before /\ ~call.result.raised

\* K is set and the file assigns it another value
C22_Witness ==
    /\ LoadCalled
    /\ call.arg.environ = (<< "K" >> :> << "o", "l", "d" >>)
    /\ call.arg.file = [exists |-> TRUE, lines |-> << << "K", "=", "K" >> >>]
    /\ ~call.result.raised
    /\ call.result.environ[<< "K" >>] = << "o", "l", "d" >>

----------------------------------------------------------------------------
(* the Redaction Tool's parser                                             *)

ParseCalled == call.fn = "parse_args"

UsageHas(u, flag) == \E i \in 1..Len(u.order) : u.order[i] = flag

\* the image comes right after the values of --blur or --blur-regex
ImageFollowsVarArity(u) ==
    u.order # << >> /\ u.order[Len(u.order)] \in VarArityFlags

GivenValues(u, flag, values) == IF UsageHas(u, flag) THEN values ELSE << >>

ParsedAsGiven(u, r) ==
    /\ r.exit = 0
    /\ r.args.image = u.image
    /\ r.args.blur = GivenValues(u, "--blur", u.blur)
    /\ r.args.blur_regex = GivenValues(u, "--blur-regex", u.blur_regex)

\* C23: a command line whose image comes last, right after --blur or
\* --blur-regex and its values, with no "--" in between, fails to parse with
\* exit status 2; the same command line with "--" put before the image
\* parses, image being that path and blur / blur_regex exactly the values
\* given; and a command line with the image before all flags parses, with
\* the same result.
C23_ImageAfterVarArityFlag ==
    ParseCalled =>
        LET u == call.arg.usage
            r == call.result
        IN /\ u.layout = "last" /\ ImageFollowsVarArity(u) => r.exit = 2
           /\ u.layout = "last_sep" /\ ImageFollowsVarArity(u) => ParsedAsGiven(u, r)
           /\ u.layout = "first" => ParsedAsGiven(u, r)

\* ["--blur", "myuser", "screenshot.png"]
C23_Witness ==
    /\ ParseCalled
    /\ call.arg.argv = << "--blur", "myuser", "screenshot.png" >>
    /\ call.result.exit = 2
----------------------------------------------------------------------------

(* C27 *)

CountTag(log, tag) == Cardinality({i \in 1..Len(log) : log[i] = tag})

\* set_tensor once and first, then the untimed invocations, then the timed
\* ones, then at most the one get_tensor
LogInOrder(log) ==
    LET a == CountTag(log, "invoke")
        b == CountTag(log, "timed_invoke")
    IN /\ log[1] = "set_tensor"
       /\ \A i \in 2..Len(log) :
             log[i] = IF i <= 1 + a THEN "invoke"
                      ELSE IF i <= 1 + a + b THEN "timed_invoke"
                      ELSE "get_tensor"
       /\ Len(log) <= 2 + a + b

BenchmarkOrderAndCounts(s, warmup, runs) ==
    LET log == interp[s].log
        a == CountTag(log, "invoke")
        b == CountTag(log, "timed_invoke")
    IN log # << >> =>
          /\ LogInOrder(log)
          /\ a <= warmup
          /\ b > 0 => a = warmup
          /\ b <= runs
          /\ Len(interp[s].times) = b
          /\ bench_result[s] # << >> =>
                /\ a = warmup
                /\ b = runs
                /\ a + b = warmup + runs
                /\ bench_result[s][1].samples = runs
                /\ bench_result[s][1].num_runs = runs

\* C27: benchmark_inference sets the input tensor once, then performs all
\* num_warmup untimed invocations before the first timed one, then exactly
\* num_runs timed invocations with exactly num_runs recorded latencies; the
\* CPU run warms up 5 times and the NPU child 20 times, and both are given
\* the same input data and the same num_runs.
C27_WarmupThenTimedRuns ==
    /\ BenchmarkOrderAndCounts("cpu", 5, num_runs)
    /\ BenchmarkOrderAndCounts("npu", 20, num_runs)
    /\ \A s \in {"cpu", "npu"} :
          interp[s].tensor # << >> => interp[s].tensor = << input_data >>

C27_Witness ==
    /\ kpc = "done"
    /\ input_data.dtype = "int8"
    /\ input_data.data[1] < 0
    /\ bench_result["cpu"] # << >>
    /\ bench_result["npu"] # << >>
    /\ num_runs = BENCHMARK_NUM_RUNS

====
